---- MODULE Spec2Model ----
(***************************************************************************)
(* The Becoin treasury ledger (class BecoinEconomy) as a state machine.    *)
(*                                                                         *)
(* The ledger is one JSON file; every public method loads it, changes the  *)
(* loaded copy and writes the copy back.  Spec runs the methods one call   *)
(* at a time (each call to completion); SpecConc interleaves reserveBudget *)
(* calls at their file read and file write, the only suspension points of  *)
(* the single-threaded runtime.                                            *)
(*                                                                         *)
(* Amounts are integers (whole Becoins).  Identifiers produced by          *)
(* nanoid(12) are modelled as fresh numbers taken from a counter.  The     *)
(* free-text fields (reason, description) and the timestamps (createdAt,   *)
(* committedAt) take part in no decision and are left out.  An optional    *)
(* field or argument is a sequence: <<>> when absent, <<v>> when present.  *)
(***************************************************************************)
EXTENDS Integers, Sequences, FiniteSets, TLC

\* ------------------------------------------------------------------ bounds

\* Most reservations a modelled ledger holds.
MaxReservations == 2

\* Most transactions a modelled ledger holds.
MaxTransactions == 2

\* Concurrent callers of SpecConc.
NumProcs == 2

\* Calls of generate in SpecGen.
MaxCalls == 2

\* Milliseconds the clock may advance.
MaxClock == 1

\* Patterns the analyzer hands to one discovery call.
MaxPatterns == 2

\* Calls of collectFeedback in SpecFeedback.
MaxFeedbacks == 2

\* SpecImprove makes at most MaxChecks calls of checkAndImprove.
MaxChecks == 1

\* SpecImprove makes at most MaxExecutions calls of executeImprovements.
MaxExecutions == 1

\* In SpecTrain each trainer makes at most MaxRuns training runs.
MaxRuns == 2

\* The wall clock's last reading in SpecAnalyze.
MaxInstant == 1

\* SpecDaemon makes at most MaxStarts calls of start().
MaxStarts == 3

\* In SpecDaemon the interval timers fire at most MaxFirings times.
MaxFirings == 1

\* SpecImprove makes at most MaxStatusCalls calls of getOptimizationStatus.
MaxStatusCalls == 1

\* --------------------------------------------------------- program constants

DefaultBalance == 100000

DefaultBurnRate == 250

\* calculateRunway's result when burnRate is not positive (Infinity).
InfiniteRunway == -1

\* The 20% allocation cap, as its reciprocal: amount > available * 0.2.
\* For whole amounts this is 5 * amount > available: 0.2 is the double just
\* above 1/5, so available * 0.2 rounds to a double in [available/5, available/5 + ulp],
\* and no integer lies strictly between available/5 and that product.
AllocationDivisor == 5

\* The generator's 20% gate, as its reciprocal: cost > balance * 0.2.
BalanceShareDivisor == 5

\* config.minConfidence || 0.7, in hundredths.
MinConfidence == 70

\* analyzeCommands: count >= 3.
CommandThreshold == 3

\* analyzeFileOperations: count >= 5.
EditThreshold == 5

\* analyzeSwarmLogs: count >= 3.
TaskThreshold == 3

ErrReserveAmount == "Reservation amount must be greater than zero"

ErrInsufficientAvailable == "Insufficient available balance in Becoin treasury"

ErrAllocation == "Requested amount exceeds 20% allocation"

ErrNotFound == "Reservation not found or already processed"

ErrCommitBalance == "Insufficient treasury balance to commit reservation"

ErrRevenueAmount == "Revenue amount must be greater than zero"

\* ------------------------------------------------------------- input sets

\* reserveBudget(amount): non-positive, the test suite's 2,500 and 20,000,
\* and one above any balance the bounds allow.
ReserveAmounts == {-500, 0, 2500, 20000, 150000}

\* commitReservation(id, actualCost?): omitted, below the reservation, negative,
\* and the whole starting balance.
CostArgs == {<<>>, <<2000>>, <<-1000>>, <<100000>>}

\* recordRevenue(amount)
RevenueAmounts == {-5, 0, 5000}

Procs == 1..NumProcs

\* Amounts the concurrent callers pass.
ConcAmounts == {0, 2500, 20000}

\* generate(config): the pain point.  The suite's low-value bottleneck (cost 380),
\* a weekly repetitive task (266), the 678 of a high-severity repetitive task,
\* and a recurring error as identifyPainPoints builds it (607).
GenPainPoints ==
    { [type |-> "workflow_bottleneck", severity |-> "low", timeCost |-> 5,
       automationPotential |-> 30],
      [type |-> "repetitive_task", severity |-> "low", timeCost |-> 30,
       automationPotential |-> 90],
      [type |-> "repetitive_task", severity |-> "high", timeCost |-> 120,
       automationPotential |-> 90],
      [type |-> "recurring_error", severity |-> "high", timeCost |-> 60,
       automationPotential |-> 85] }

\* Pain points of SpecCost: the 678 of a high-severity repetitive task, and
\* bottlenecks of 320, 330 and 340 minutes as identifyPainPoints builds them,
\* the first with a cost ending in .5 before Math.round.
CostPainPoints ==
    { [type |-> "repetitive_task", severity |-> "high", timeCost |-> 120,
       automationPotential |-> 90],
      [type |-> "workflow_bottleneck", severity |-> "medium", timeCost |-> 320,
       automationPotential |-> 75],
      [type |-> "workflow_bottleneck", severity |-> "medium", timeCost |-> 330,
       automationPotential |-> 75],
      [type |-> "workflow_bottleneck", severity |-> "medium", timeCost |-> 340,
       automationPotential |-> 75] }

\* generate(config) in SpecCost: a budget range that lets every cost through,
\* and the treasury of a fresh ledger.
CostBudgets == { [min |-> 100, max |-> 1000] }

CostTreasuries == { [balance |-> 100000, reserved |-> 0, availableBalance |-> 100000] }

\* generate(config): the budget range; the default and a higher one.
GenBudgets == { [min |-> 100, max |-> 500], [min |-> 300, max |-> 800] }

\* generate(config): the treasury snapshot; a fresh ledger, the suite's
\* 1,000 with 900 reserved, and 2,000 with 1,900 reserved.
GenTreasuries ==
    { [balance |-> 100000, reserved |-> 0, availableBalance |-> 100000],
      [balance |-> 1000, reserved |-> 900, availableBalance |-> 100],
      [balance |-> 2000, reserved |-> 1900, availableBalance |-> 100] }

\* Patterns the analyzer may report (confidence in hundredths): a repetitive
\* task (pain point of cost 266), a bottleneck (496), a recurring error (540),
\* a workflow pattern, which is no pain point, and a repetitive task below the
\* confidence floor.
SessionPatterns ==
    { [id |-> "p1", type |-> "repetitive", frequency |-> 6, timeSpent |-> 30,
       confidence |-> 90],
      [id |-> "p2", type |-> "bottleneck", frequency |-> 2, timeSpent |-> 61,
       confidence |-> 80],
      [id |-> "p3", type |-> "error", frequency |-> 4, timeSpent |-> 10,
       confidence |-> 80],
      [id |-> "p4", type |-> "workflow", frequency |-> 10, timeSpent |-> 5,
       confidence |-> 80],
      [id |-> "p5", type |-> "repetitive", frequency |-> 6, timeSpent |-> 60,
       confidence |-> 50] }

\* Patterns on either side of each test of identifyPainPoints, and patterns of
\* the two types it has no test for.
PainPatterns ==
    { [id |-> "r5", type |-> "repetitive", frequency |-> 5, timeSpent |-> 30,
       confidence |-> 90],
      [id |-> "r6", type |-> "repetitive", frequency |-> 6, timeSpent |-> 30,
       confidence |-> 90],
      [id |-> "e3", type |-> "error", frequency |-> 3, timeSpent |-> 70,
       confidence |-> 80],
      [id |-> "e4", type |-> "error", frequency |-> 4, timeSpent |-> 10,
       confidence |-> 80],
      [id |-> "e0", type |-> "error", frequency |-> 4, timeSpent |-> 0,
       confidence |-> 80],
      [id |-> "b60", type |-> "bottleneck", frequency |-> 8, timeSpent |-> 60,
       confidence |-> 80],
      [id |-> "b61", type |-> "bottleneck", frequency |-> 2, timeSpent |-> 61,
       confidence |-> 80],
      [id |-> "w", type |-> "workflow", frequency |-> 10, timeSpent |-> 90,
       confidence |-> 80],
      [id |-> "s", type |-> "search", frequency |-> 10, timeSpent |-> 90,
       confidence |-> 80] }

\* What patternAnalyzer.analyze resolves to in SpecPain.
PainResults ==
    UNION { [1..n -> PainPatterns] : n \in 0..MaxPatterns }

\* What patternAnalyzer.analyze resolves to.
AnalyzerResults ==
    UNION { [1..n -> SessionPatterns] : n \in 0..MaxPatterns }

\* ceo_discover's budgetMin/budgetMax: the default and a wider range.
DiscBudgets == { [min |-> 100, max |-> 500], [min |-> 100, max |-> 800] }

\* reserveBudget amounts other processes pass meanwhile.
DiscAmounts == {2500, 20000}

\* The patterns behind the sessions SpecFeedback stores: a repetitive task
\* with a bottleneck (predicted impacts 67 and 76), and a repetitive task of
\* critical severity (cost 799, predicted impact 87).
FeedbackPatternLists ==
    { << [id |-> "p1", type |-> "repetitive", frequency |-> 6, timeSpent |-> 30,
          confidence |-> 90],
         [id |-> "p2", type |-> "bottleneck", frequency |-> 2, timeSpent |-> 61,
          confidence |-> 80] >>,
      << [id |-> "p6", type |-> "repetitive", frequency |-> 40, timeSpent |-> 30,
          confidence |-> 90] >> }

\* The milliseconds at which those sessions were started.
SessionTimes == {0, 1}

\* collectFeedback's projectId.
ProjectIds == {"project-123"}

\* collectFeedback's feedback: the suite's scores (average 78.75), and scores
\* averaging 88.75.
FeedbackInputs ==
    { [timeSavings |-> 80, problemSolution |-> 90, usability |-> 75,
       sustainability |-> 70, userSatisfaction |-> 85, actualCost |-> 280],
      [timeSavings |-> 90, problemSolution |-> 90, usability |-> 90,
       sustainability |-> 85, userSatisfaction |-> 90, actualCost |-> 300] }

\* The configuration the ContinuousImprovement is built with: retraining
\* from two training examples on, the other settings at their defaults.
ImprovementConfig == [autoTrainThreshold |-> 2]

\* The processes that train models: the daemon's optimization cycle and the
\* retraining tool.
Trainers == {"cycle", "tool"}

\* The kinds of model the trainer writes.
ModelTypes == {"impact_predictor", "cost_estimator"}

VARIABLES
    file,     \* the treasury file: <<>> when it does not exist, else <<TreasuryFile>>
    nextId,   \* the next fresh nanoid
    last,     \* the last completed call of Spec: its arguments and its result
    procs,    \* SpecConc: each concurrent caller's position and the copy it is
              \* about to save (<<>> before there is one)
    clock,    \* Date.now(), in milliseconds since the first call
    generated, \* SpecGen: the generate calls made so far, each with its result
    session,  \* SpecDisc: the DiscoverySession object of the call, <<>> before it exists
    frame,    \* SpecDisc: where the ceo_discover call stands, and its locals
    sessionFiles, \* the discovery-sessions directory: file name -> saved session
    feedbackFiles, \* the feedback directory: file name -> ActualImpact
    trainingFiles, \* the training-data directory: file name -> TrainingData
    lastFeedback, \* SpecFeedback: the last collectFeedback call and what it returned
    modelFiles,   \* the neural-models directory: file name -> NeuralModel
    improvement,  \* the ContinuousImprovement object: its config, lastTrainingTime
                  \* and improvementHistory
    cycle,    \* SpecImprove: what checkAndImprove last returned, where the
              \* executeImprovements call stands, what it attempted and emitted,
              \* and the training examples its executed trainings have read
    trainers, \* SpecTrain: each NeuralTrainer's training run, its position and locals
    analysis, \* SpecAnalyze: the PatternAnalyzer's analyze call, its position, the
              \* patterns pooled so far and what mergePatterns returned
    daemon,   \* SpecDaemon: the CEODaemon object, the runtime's live interval
              \* timers and the start() calls awaiting their discovery cycle
    status    \* what the last getOptimizationStatus call returned, and whether
              \* the ceo_optimization_status tool made it

\* What the treasury ledger's calls read and write.
ledgerVars == <<file, nextId, last, procs>>

\* What the proposal generator's calls read and write.
genVars == <<clock, generated>>

\* What a discovery call reads and writes, besides the ledger and the clock.
discVars == <<session, frame, sessionFiles>>

\* What the feedback loop writes.
feedbackVars == <<feedbackFiles, trainingFiles, lastFeedback>>

\* What the improvement cycle and the neural trainers read and write, besides
\* the feedback loop's directories.
improveVars == <<modelFiles, improvement, cycle, trainers>>

\* What the pattern analyzer's analyze call reads and writes.
analyzerVars == <<analysis>>

\* What the daemon's start and stop read and write.
daemonVars == <<daemon>>

\* What a getOptimizationStatus call writes.
statusVars == <<status>>

\* Everything the treasury ledger's methods leave alone.
beyondLedger ==
    <<genVars, discVars, feedbackVars, improveVars, analyzerVars, daemonVars, statusVars>>

\* Everything a generate call leaves alone.
beyondGen ==
    <<ledgerVars, discVars, feedbackVars, improveVars, analyzerVars, daemonVars, statusVars>>

vars == <<file, nextId, last, procs, clock, generated, session, frame, sessionFiles,
          feedbackFiles, trainingFiles, lastFeedback, modelFiles, improvement, cycle,
          trainers, analysis, daemon, status>>

\* ---------------------------------------------------------------- helpers

Max(a, b) == IF a >= b THEN a ELSE b

Min(a, b) == IF a < b THEN a ELSE b

\* Math.round((balance / burnRate) * 100) / 100, in hundredths of an hour.
calculateRunway(balance, burnRate) ==
    IF burnRate <= 0 THEN InfiniteRunway
    ELSE (2 * 100 * balance + burnRate) \div (2 * burnRate)

\* The defaults loadTreasuryFile writes when the file does not exist.
Defaults ==
    [balance |-> DefaultBalance,
     startCapital |-> DefaultBalance,
     metrics |-> [burnRate |-> DefaultBurnRate, runway |-> 40000],
     reservations |-> <<>>,
     transactions |-> <<>>]

\* hydrateTreasury on a file this class wrote (every field present, so no
\* ?? default applies): the runway is recomputed, the rest is copied.
hydrateTreasury(data) ==
    [balance |-> data.balance,
     startCapital |-> data.startCapital,
     metrics |-> [burnRate |-> data.metrics.burnRate,
                  runway |-> calculateRunway(data.balance, data.metrics.burnRate)],
     reservations |-> data.reservations,
     transactions |-> data.transactions]

\* loadTreasuryFile's return value for file content f.
LoadedData(f) == IF f = <<>> THEN Defaults ELSE hydrateTreasury(f[1])

\* A slip: the defaults returned without being saved.
FileAfterLoadUnsaved(f) == f

\* The file after loadTreasuryFile returned: defaults are saved when missing.
FileAfterLoad(f) == IF f = <<>> THEN <<Defaults>> ELSE f

RECURSIVE SumReserved(_)
\* .filter(r => r.status === 'reserved').reduce((sum, r) => sum + r.amount, 0)
SumReserved(rs) ==
    IF rs = <<>> THEN 0
    ELSE (IF rs[1].status = "reserved" THEN rs[1].amount ELSE 0) + SumReserved(Tail(rs))

ReservedTotal(data) == SumReserved(data.reservations)

\* Math.max(0, data.balance - reserved)
Available(data) == Max(0, data.balance - ReservedTotal(data))

\* getSnapshot's return value for loaded data.
Snapshot(data) ==
    [balance |-> data.balance,
     startCapital |-> data.startCapital,
     burnRate |-> data.metrics.burnRate,
     runway |-> calculateRunway(data.balance, data.metrics.burnRate),
     reserved |-> ReservedTotal(data),
     availableBalance |-> Available(data)]

\* A slip: find by id alone, whatever the status.
FindAnyStatus(data, reservationId) ==
    LET hits == {i \in 1..Len(data.reservations) :
                    data.reservations[i].id = reservationId}
    IN IF hits = {} THEN 0 ELSE CHOOSE i \in hits : \A j \in hits : i <= j

\* data.reservations.find(r => r.id === reservationId && r.status === 'reserved'):
\* the index of the first match, 0 when there is none.
FindReserved(data, reservationId) ==
    LET hits == {i \in 1..Len(data.reservations) :
                    /\ data.reservations[i].id = reservationId
                    /\ data.reservations[i].status = "reserved"}
    IN IF hits = {} THEN 0 ELSE CHOOSE i \in hits : \A j \in hits : i <= j

Rejected(data, err) == [ok |-> FALSE, error |-> err, data |-> data]

Accepted(data) == [ok |-> TRUE, error |-> "", data |-> data]

\* ------------------------------------------------- the methods, after load

\* A slip: the `available > 0` guard of the cap check copied onto this check.
InsufficientUnlessEmpty(amount, available) == amount > available /\ available > 0

\* amount > available
InsufficientAvailable(amount, available) == amount > available

\* A slip: the cap compared without the 0.2 factor.
ExceedsWholeAvailable(amount, available) == amount > available /\ available > 0

\* amount > maxAllocation && available > 0, maxAllocation = available * 0.2
ExceedsAllocation(amount, available) ==
    AllocationDivisor * amount > available /\ available > 0

NewReservation(rid, amount) ==
    [id |-> rid, amount |-> amount, status |-> "reserved", actualCost |-> <<>>]

\* reserveBudget from the loaded data on (amount is already known positive).
reserveBudgetOn(data, amount, rid) ==
    LET available == Available(data) IN
    IF InsufficientAvailable(amount, available)
    THEN Rejected(data, ErrInsufficientAvailable)
    ELSE IF ExceedsAllocation(amount, available)
    THEN Rejected(data, ErrAllocation)
    ELSE Accepted([data EXCEPT !.reservations = Append(@, NewReservation(rid, amount))])

\* A slip: the actualCost argument ignored.
CostIgnoringActual(actualCost, reservation) == reservation.amount

\* actualCost ?? reservation.amount
CostOf(actualCost, reservation) ==
    IF actualCost = <<>> THEN reservation.amount ELSE actualCost[1]

\* reservation.status = 'committed'; reservation.actualCost = cost
CommitMark(reservation, cost) ==
    [reservation EXCEPT !.status = "committed", !.actualCost = <<cost>>]

\* data.balance = Math.max(0, data.balance - cost)
BalanceAfterCommit(balance, cost) == Max(0, balance - cost)

\* A slip: the balance check left to the Math.max(0, ...) clamp.
CommitNeverExceeds(cost, balance) == FALSE

\* cost > data.balance
CommitExceedsBalance(cost, balance) == cost > balance

ExpenseTransaction(tid, cost, reservationId) ==
    [id |-> tid, type |-> "expense", amount |-> cost, reservationId |-> <<reservationId>>]

\* commitReservation from the loaded data on.
commitReservationOn(data, reservationId, actualCost, tid) ==
    LET i == FindReserved(data, reservationId) IN
    IF i = 0 THEN Rejected(data, ErrNotFound)
    ELSE LET cost == CostOf(actualCost, data.reservations[i])
             balance == BalanceAfterCommit(data.balance, cost)
         IN IF CommitExceedsBalance(cost, data.balance)
            THEN Rejected(data, ErrCommitBalance)
            ELSE Accepted(
                [data EXCEPT
                    !.reservations[i] = CommitMark(@, cost),
                    !.balance = balance,
                    !.metrics.runway = calculateRunway(balance, data.metrics.burnRate),
                    !.transactions = Append(@, ExpenseTransaction(tid, cost, reservationId))])

\* A slip: the actualCost of a cancelled reservation left unset.
CancelMarkWithoutCost(reservation) == [reservation EXCEPT !.status = "cancelled"]

\* reservation.status = 'cancelled'; reservation.actualCost = 0
CancelMark(reservation) ==
    [reservation EXCEPT !.status = "cancelled", !.actualCost = <<0>>]

\* cancelReservation from the loaded data on.
cancelReservationOn(data, reservationId) ==
    LET i == FindReserved(data, reservationId) IN
    IF i = 0 THEN Rejected(data, ErrNotFound)
    ELSE Accepted([data EXCEPT !.reservations[i] = CancelMark(@)])

RevenueTransaction(tid, amount) ==
    [id |-> tid, type |-> "revenue", amount |-> amount, reservationId |-> <<>>]

\* A slip: the revenue recorded and the balance left as it was.
BalanceWithoutRevenue(balance, amount) == balance

\* data.balance += amount
BalanceAfterRevenue(balance, amount) == balance + amount

\* A slip: the transaction list replaced by the new transaction.
recordRevenueReplacing(data, amount, tid) ==
    LET balance == BalanceAfterRevenue(data.balance, amount) IN
    Accepted(
        [data EXCEPT
            !.balance = balance,
            !.metrics.runway = calculateRunway(balance, data.metrics.burnRate),
            !.transactions = <<RevenueTransaction(tid, amount)>>])

\* recordRevenue from the loaded data on (amount is already known positive).
recordRevenueOn(data, amount, tid) ==
    LET balance == BalanceAfterRevenue(data.balance, amount) IN
    Accepted(
        [data EXCEPT
            !.balance = balance,
            !.metrics.runway = calculateRunway(balance, data.metrics.burnRate),
            !.transactions = Append(@, RevenueTransaction(tid, amount))])

\* ------------------------------------------------------------------- state

NoCall ==
    [op |-> "none", amount |-> 0, id |-> 0, cost |-> <<>>,
     ok |-> TRUE, error |-> "", snapshot |-> <<>>]

\* The constructor's configuration before any call: budgetRange 100-500.
NoFrame ==
    [pc |-> "idle", budgetRange |-> [min |-> 100, max |-> 500], treasury |-> <<>>,
     proposals |-> <<>>, next |-> 0, raised |-> FALSE]

NoFeedback ==
    [calls |-> 0, proposalId |-> <<>>, feedback |-> <<>>, proposal |-> <<>>,
     returned |-> <<>>]

\* The constructor's this.config; minAccuracyImprovement in tenths, the
\* experimentation rate is left out.
OptimizationConfig(config) ==
    [autoTrainThreshold |->
        IF "autoTrainThreshold" \in DOMAIN config /\ config.autoTrainThreshold # 0
        THEN config.autoTrainThreshold ELSE 10,
     minAccuracyImprovement |->
        IF "minAccuracyImprovement" \in DOMAIN config /\ config.minAccuracyImprovement # 0
        THEN config.minAccuracyImprovement ELSE 20,
     retrainingInterval |->
        IF "retrainingInterval" \in DOMAIN config /\ config.retrainingInterval # 0
        THEN config.retrainingInterval ELSE 168]

\* A ContinuousImprovement as its constructor leaves it.
NewImprovement(config) ==
    [config |-> OptimizationConfig(config),
     lastTrainingTime |-> <<>>,
     improvementHistory |-> <<>>]

\* Before the daemon is constructed.
NoDaemon ==
    [pc |-> "none", autoStart |-> FALSE, isRunning |-> FALSE,
     discoveryTimer |-> <<>>, optimizationTimer |-> <<>>,
     timers |-> {}, nextTimer |-> 1, awaiting |-> 0, starts |-> 0, rejected |-> 0,
     firings |-> 0]

\* Before any getOptimizationStatus call.
NoStatus == [calls |-> 0, tool |-> FALSE, returned |-> <<>>]

\* Before analyze is called.
NoAnalysis == [pc |-> "idle", patterns |-> <<>>, merged |-> <<>>]

\* Before any checkAndImprove or executeImprovements call.
NoCycle ==
    [pc |-> "idle", checks |-> 0, checked |-> <<>>, executions |-> 0,
     actions |-> <<>>, next |-> 0, attempted |-> <<>>, emitted |-> <<>>,
     trainedOn |-> {}]

\* A trainer that has not been called.
IdleTrainer ==
    [pc |-> "idle", type |-> "", runs |-> 0, trainingData |-> <<>>,
     initialAccuracy |-> <<>>, weights |-> <<>>, model |-> <<>>, result |-> <<>>]

IdleProc ==
    [pc |-> "idle", amount |-> 0, data |-> <<>>, id |-> 0, ok |-> FALSE, error |-> ""]

\* The constructor only computes the file path: the file may be missing or
\* may hold a ledger bootstrapped earlier.
Init ==
    /\ file \in {<<>>, <<Defaults>>}
    /\ nextId = 1
    /\ last = NoCall
    /\ procs = [p \in Procs |-> IdleProc]
    /\ clock = 0
    /\ generated = <<>>
    /\ session = <<>>
    /\ frame = NoFrame
    /\ sessionFiles = <<>>
    /\ feedbackFiles = <<>>
    /\ trainingFiles = <<>>
    /\ lastFeedback = NoFeedback
    /\ modelFiles = <<>>
    /\ improvement = NewImprovement(ImprovementConfig)
    /\ cycle = NoCycle
    /\ trainers = [t \in Trainers |-> IdleTrainer]
    /\ analysis = NoAnalysis
    /\ daemon = NoDaemon
    /\ status = NoStatus

NumReservations == IF file = <<>> THEN 0 ELSE Len(file[1].reservations)

NumTransactions == IF file = <<>> THEN 0 ELSE Len(file[1].transactions)

\* ------------------------------------------- Spec: one call at a time

GetSnapshot ==
    /\ file' = FileAfterLoad(file)
    /\ last' = [NoCall EXCEPT !.op = "getSnapshot",
                              !.snapshot = <<Snapshot(LoadedData(file))>>]
    /\ UNCHANGED <<nextId, procs, beyondLedger>>

ReserveBudget(amount) ==
    /\ NumReservations < MaxReservations
    /\ IF amount <= 0
       THEN /\ last' = [NoCall EXCEPT !.op = "reserveBudget", !.amount = amount,
                                      !.ok = FALSE, !.error = ErrReserveAmount]
            /\ UNCHANGED <<file, nextId>>
       ELSE LET r == reserveBudgetOn(LoadedData(file), amount, nextId) IN
            /\ file' = IF r.ok THEN <<r.data>> ELSE FileAfterLoad(file)
            /\ nextId' = IF r.ok THEN nextId + 1 ELSE nextId
            /\ last' = [NoCall EXCEPT !.op = "reserveBudget", !.amount = amount,
                                      !.id = IF r.ok THEN nextId ELSE 0,
                                      !.ok = r.ok, !.error = r.error]
    /\ UNCHANGED <<procs, beyondLedger>>

\* The method ends with `return this.getSnapshot()`: a second load of the file
\* just written.
CommitReservation(reservationId, actualCost) ==
    /\ NumTransactions < MaxTransactions
    /\ LET r == commitReservationOn(LoadedData(file), reservationId, actualCost, nextId) IN
       /\ file' = IF r.ok THEN <<r.data>> ELSE FileAfterLoad(file)
       /\ nextId' = IF r.ok THEN nextId + 1 ELSE nextId
       /\ last' = [NoCall EXCEPT !.op = "commitReservation", !.id = reservationId,
                                 !.cost = actualCost, !.ok = r.ok, !.error = r.error,
                                 !.snapshot = IF r.ok THEN <<Snapshot(LoadedData(<<r.data>>))>>
                                              ELSE <<>>]
    /\ UNCHANGED <<procs, beyondLedger>>

CancelReservation(reservationId) ==
    /\ LET r == cancelReservationOn(LoadedData(file), reservationId) IN
       /\ file' = IF r.ok THEN <<r.data>> ELSE FileAfterLoad(file)
       /\ last' = [NoCall EXCEPT !.op = "cancelReservation", !.id = reservationId,
                                 !.ok = r.ok, !.error = r.error,
                                 !.snapshot = IF r.ok THEN <<Snapshot(LoadedData(<<r.data>>))>>
                                              ELSE <<>>]
    /\ UNCHANGED <<nextId, procs, beyondLedger>>

RecordRevenue(amount) ==
    /\ NumTransactions < MaxTransactions
    /\ IF amount <= 0
       THEN /\ last' = [NoCall EXCEPT !.op = "recordRevenue", !.amount = amount,
                                      !.ok = FALSE, !.error = ErrRevenueAmount]
            /\ UNCHANGED <<file, nextId>>
       ELSE LET r == recordRevenueOn(LoadedData(file), amount, nextId) IN
            /\ file' = <<r.data>>
            /\ nextId' = nextId + 1
            /\ last' = [NoCall EXCEPT !.op = "recordRevenue", !.amount = amount,
                                      !.ok = TRUE,
                                      !.snapshot = <<Snapshot(LoadedData(<<r.data>>))>>]
    /\ UNCHANGED <<procs, beyondLedger>>

\* Identifiers a caller passes: those of the ledger's reservations, and one
\* that names no reservation.
IdArgs ==
    {nextId} \cup (IF file = <<>> THEN {}
                   ELSE {file[1].reservations[i].id : i \in 1..Len(file[1].reservations)})

Next ==
    \/ GetSnapshot
    \/ \E amount \in ReserveAmounts : ReserveBudget(amount)
    \/ \E reservationId \in IdArgs, actualCost \in CostArgs :
          CommitReservation(reservationId, actualCost)
    \/ \E reservationId \in IdArgs : CancelReservation(reservationId)
    \/ \E amount \in RevenueAmounts : RecordRevenue(amount)

Spec == Init /\ [][Next]_vars

\* ----------------------------- SpecConc: reserveBudget calls, interleaved
\* A call runs synchronously up to its first await (fs.readFile), resumes when
\* the read has completed and runs, again synchronously, through the checks up
\* to the await of the write (fs.mkdir, fs.writeFile), and returns when the
\* write has completed.  Other calls run in between.

\* The synchronous part after loadTreasuryFile returned `data`: the checks, and
\* the push of the new reservation onto the caller's own copy.
AfterLoad(p, data) ==
    LET r == reserveBudgetOn(data, procs[p].amount, nextId) IN
    /\ procs' = [procs EXCEPT ![p] =
                    IF r.ok
                    THEN [@ EXCEPT !.pc = "saving", !.data = <<r.data>>, !.id = nextId]
                    ELSE [@ EXCEPT !.pc = "done", !.ok = FALSE, !.error = r.error]]
    /\ nextId' = IF r.ok THEN nextId + 1 ELSE nextId

\* reserveBudget is called: the amount check, then the read is issued.
Call(p, amount) ==
    /\ procs[p].pc = "idle"
    /\ procs' = [procs EXCEPT ![p] =
                    IF amount <= 0
                    THEN [@ EXCEPT !.pc = "done", !.amount = amount, !.ok = FALSE,
                                   !.error = ErrReserveAmount]
                    ELSE [@ EXCEPT !.pc = "loading", !.amount = amount]]
    /\ UNCHANGED <<file, nextId, last, beyondLedger>>

\* fs.readFile completes: with the content, or with ENOENT (the defaults are
\* then to be saved before loadTreasuryFile returns them).
ReadFile(p) ==
    /\ procs[p].pc = "loading"
    /\ IF file = <<>>
       THEN /\ procs' = [procs EXCEPT ![p].pc = "bootstrapping"]
            /\ UNCHANGED nextId
       ELSE AfterLoad(p, hydrateTreasury(file[1]))
    /\ UNCHANGED <<file, last, beyondLedger>>

\* saveTreasuryFile(defaults) completes inside loadTreasuryFile.
SaveDefaults(p) ==
    /\ procs[p].pc = "bootstrapping"
    /\ file' = <<Defaults>>
    /\ AfterLoad(p, Defaults)
    /\ UNCHANGED <<last, beyondLedger>>

\* saveTreasuryFile(data) completes: the caller's copy replaces the file, and
\* the call returns its reservation.
WriteFile(p) ==
    /\ procs[p].pc = "saving"
    /\ file' = procs[p].data
    /\ procs' = [procs EXCEPT ![p].pc = "done", ![p].ok = TRUE]
    /\ UNCHANGED <<nextId, last, beyondLedger>>

NextConc ==
    \/ \E p \in Procs, amount \in ConcAmounts : Call(p, amount)
    \/ \E p \in Procs : ReadFile(p)
    \/ \E p \in Procs : SaveDefaults(p)
    \/ \E p \in Procs : WriteFile(p)

SpecConc == Init /\ [][NextConc]_vars

\* ------------------------------------- ProposalGenerator (proposal-generator.ts)
\* Fractions are whole numbers here: automationPotential in hundredths, the
\* severity multiplier in tenths.  title, description, timeline and
\* successMetrics are fixed texts per pain-point type that nothing reads back;
\* the proposals of the model leave them out.

\* ---------------------------------------------- doubles (IEEE-754 binary64)
\* estimateCost computes in doubles and rounds once at the end, so on a value
\* ending in .5 the roundings of the steps before decide the result.  The
\* doubles of the model are exact: whole numbers of any size are sequences of
\* limbs below LimbBase, lowest first and without leading zeros, and a double
\* is m * 2^e with m of MantissaBits bits (zero: m = <<>>).  Every operation
\* computes the exact result and rounds it to the nearest double, ties to the
\* even mantissa.  The numbers of estimateCost are positive and far from the
\* ends of the exponent range.

\* Limbs of 15 bits: the product of two and a carry stay below 2^31.
LimbBits == 15

MantissaBits == 53

RECURSIVE Pow2(_)
Pow2(k) == IF k = 0 THEN 1 ELSE 2 * Pow2(k - 1)

LimbBase == Pow2(LimbBits)

RECURSIVE BigOf(_)
BigOf(n) == IF n = 0 THEN <<>> ELSE <<n % LimbBase>> \o BigOf(n \div LimbBase)

RECURSIVE BigToInt(_)
BigToInt(a) == IF a = <<>> THEN 0 ELSE a[1] + LimbBase * BigToInt(Tail(a))

RECURSIVE Trimmed(_)
Trimmed(a) ==
    IF a = <<>> THEN <<>>
    ELSE IF a[Len(a)] = 0 THEN Trimmed(SubSeq(a, 1, Len(a) - 1))
    ELSE a

LimbAt(a, i) == IF i <= Len(a) THEN a[i] ELSE 0

RECURSIVE BigAddFrom(_, _, _, _)
BigAddFrom(a, b, i, carry) ==
    IF i > Len(a) /\ i > Len(b)
    THEN (IF carry = 0 THEN <<>> ELSE <<carry>>)
    ELSE LET sum == LimbAt(a, i) + LimbAt(b, i) + carry
         IN  <<sum % LimbBase>> \o BigAddFrom(a, b, i + 1, sum \div LimbBase)

BigAdd(a, b) == BigAddFrom(a, b, 1, 0)

\* a - b, for a >= b.
RECURSIVE BigSubFrom(_, _, _, _)
BigSubFrom(a, b, i, borrow) ==
    IF i > Len(a) THEN <<>>
    ELSE LET diff == LimbAt(a, i) - LimbAt(b, i) - borrow
         IN  IF diff < 0
             THEN <<diff + LimbBase>> \o BigSubFrom(a, b, i + 1, 1)
             ELSE <<diff>> \o BigSubFrom(a, b, i + 1, 0)

BigSub(a, b) == Trimmed(BigSubFrom(a, b, 1, 0))

\* -1, 0 or 1 as a is below, equal to or above b.
RECURSIVE BigCompareFrom(_, _, _)
BigCompareFrom(a, b, i) ==
    IF i = 0 THEN 0
    ELSE IF a[i] < b[i] THEN -1
    ELSE IF a[i] > b[i] THEN 1
    ELSE BigCompareFrom(a, b, i - 1)

BigCompare(a, b) ==
    IF Len(a) < Len(b) THEN -1
    ELSE IF Len(a) > Len(b) THEN 1
    ELSE BigCompareFrom(a, b, Len(a))

\* a * k, for k below LimbBase.
RECURSIVE BigMulSmallFrom(_, _, _, _)
BigMulSmallFrom(a, k, i, carry) ==
    IF i > Len(a) THEN (IF carry = 0 THEN <<>> ELSE <<carry>>)
    ELSE LET product == a[i] * k + carry
         IN  <<product % LimbBase>> \o BigMulSmallFrom(a, k, i + 1, product \div LimbBase)

BigMulSmall(a, k) == IF k = 0 THEN <<>> ELSE BigMulSmallFrom(a, k, 1, 0)

RECURSIVE BigMul(_, _)
BigMul(a, b) ==
    IF b = <<>> \/ a = <<>> THEN <<>>
    ELSE LET rest == BigMul(a, Tail(b))
         IN  BigAdd(BigMulSmall(a, b[1]), IF rest = <<>> THEN <<>> ELSE <<0>> \o rest)

\* The quotient and the remainder of a by d, for d below LimbBase; the limbs
\* are taken from the highest down.
RECURSIVE BigDivSmallFrom(_, _, _, _)
BigDivSmallFrom(a, d, i, remainder) ==
    IF i = 0 THEN [quotient |-> <<>>, remainder |-> remainder]
    ELSE LET current == remainder * LimbBase + a[i]
             lower == BigDivSmallFrom(a, d, i - 1, current % d)
         IN  [quotient |-> lower.quotient \o <<current \div d>>,
              remainder |-> lower.remainder]

BigDivSmall(a, d) ==
    LET result == BigDivSmallFrom(a, d, Len(a), 0)
    IN  [quotient |-> Trimmed(result.quotient), remainder |-> result.remainder]

\* a * 2^n
BigShiftLeft(a, n) ==
    IF a = <<>> THEN <<>>
    ELSE [i \in 1..(n \div LimbBits) |-> 0] \o BigMulSmall(a, Pow2(n % LimbBits))

\* floor(a / 2^n)
BigShiftRight(a, n) ==
    IF n \div LimbBits >= Len(a) THEN <<>>
    ELSE BigDivSmall(SubSeq(a, (n \div LimbBits) + 1, Len(a)), Pow2(n % LimbBits)).quotient

RECURSIVE BitsOf(_)
BitsOf(n) == IF n = 0 THEN 0 ELSE 1 + BitsOf(n \div 2)

BitLength(a) ==
    IF a = <<>> THEN 0 ELSE LimbBits * (Len(a) - 1) + BitsOf(a[Len(a)])

DoubleZero == [m |-> <<>>, e |-> 0]

\* m * 2^e for m of at most MantissaBits + 1 bits, as a double.
Normalized(m, e) ==
    IF BitLength(m) > MantissaBits
    THEN [m |-> BigShiftRight(m, 1), e |-> e + 1]
    ELSE [m |-> m, e |-> e]

\* kept * 2^e, one more in the last place when the part dropped says so:
\* `half` is -1, 0 or 1 as that part is below, equal to or above one half of
\* the last place.
RoundedKept(kept, e, half, sticky) ==
    Normalized(IF half > 0 \/ (half = 0 /\ (sticky \/ kept[1] % 2 = 1))
               THEN BigAdd(kept, <<1>>)
               ELSE kept,
               e)

RoundedFrom(n, e, sticky, shift, kept) ==
    RoundedKept(kept, e + shift,
                BigCompare(BigSub(n, BigShiftLeft(kept, shift)),
                           BigShiftLeft(<<1>>, shift - 1)),
                sticky)

\* n * 2^e with the lowest `shift` bits of n rounded away.
RoundedBy(n, e, sticky, shift) ==
    IF shift <= 0
    THEN [m |-> BigShiftLeft(n, -shift), e |-> e + shift]
    ELSE RoundedFrom(n, e, sticky, shift, BigShiftRight(n, shift))

\* The double nearest to n * 2^e (plus a little, when `sticky`: what a
\* division left over), ties to even.
RoundedDouble(n, e, sticky) ==
    IF n = <<>> THEN DoubleZero
    ELSE RoundedBy(n, e, sticky, BitLength(n) - MantissaBits)

\* The double of a whole number.
DoubleOf(n) == RoundedDouble(BigOf(n), 0, FALSE)

\* a / b of two whole numbers that are doubles, b below LimbBase: the
\* quotient to QuotientBits binary places, the remainder noted.
QuotientBits == 75

DoubleDiv(a, b) ==
    LET division == BigDivSmall(BigShiftLeft(BigOf(a), QuotientBits), b)
    IN  RoundedDouble(division.quotient, -QuotientBits, division.remainder # 0)

DoubleMul(x, y) == RoundedDouble(BigMul(x.m, y.m), x.e + y.e, FALSE)

DoubleAdd(x, y) ==
    IF x.m = <<>> THEN y
    ELSE IF y.m = <<>> THEN x
    ELSE LET e == Min(x.e, y.e)
         IN  RoundedDouble(BigAdd(BigShiftLeft(x.m, x.e - e), BigShiftLeft(y.m, y.e - e)),
                           e, FALSE)

\* x - y, for x >= y.
DoubleSub(x, y) ==
    IF y.m = <<>> THEN x
    ELSE LET e == Min(x.e, y.e)
         IN  RoundedDouble(BigSub(BigShiftLeft(x.m, x.e - e), BigShiftLeft(y.m, y.e - e)),
                           e, FALSE)

\* Math.round(x) = floor(x + 1/2), for x >= 0 below 2^30.
MathRound(x) ==
    IF x.m = <<>> THEN 0
    ELSE IF x.e >= 0 THEN BigToInt(BigShiftLeft(x.m, x.e))
    ELSE (BigToInt(BigShiftRight(x.m, -x.e - 1)) + 1) \div 2

\* severityMultiplier, in tenths.
SeverityMultiplier(severity) ==
    CASE severity = "low" -> 10
      [] severity = "medium" -> 15
      [] severity = "high" -> 20
      [] severity = "critical" -> 30

\* A slip: the cost without the token estimate, risk buffer and margin.
estimateCostBaseOnly(painPoint) ==
    LET n == SeverityMultiplier(painPoint.severity)
               * (200 - painPoint.automationPotential)
               * (300 + painPoint.timeCost) * 10
    IN  (2 * n + 30000) \div 60000

\* baseCost * 0.5, baseCost * 0.3 and baseCost * 0.4 added to baseCost in the
\* order of the code, and the sum rounded.
RoundedTotal(baseCost) ==
    MathRound(DoubleAdd(DoubleAdd(DoubleAdd(baseCost,
                                            DoubleMul(baseCost, DoubleDiv(5, 10))),
                                  DoubleMul(baseCost, DoubleDiv(3, 10))),
                        DoubleMul(baseCost, DoubleDiv(4, 10))))

\* estimateCost, step for step in doubles.  automationPotential comes in
\* hundredths and the severity multiplier in tenths: the double of the literal
\* 0.9 is the double nearest to 90/100.
estimateCostInDoubles(painPoint) ==
    RoundedTotal(
        DoubleMul(DoubleMul(DoubleMul(DoubleOf(100),
                                      DoubleDiv(SeverityMultiplier(painPoint.severity), 10)),
                            DoubleSub(DoubleOf(2),
                                      DoubleDiv(painPoint.automationPotential, 100))),
                  DoubleAdd(DoubleOf(1), DoubleDiv(painPoint.timeCost, 300))))

\* estimateCost.  The exact value of the sum is n / 30000.  Off a half it lies
\* at least 1/60000 from the nearest half, and the roundings of the doubles
\* (fewer than twenty, each within 2^-53 of its value, the values below 2^30)
\* move the sum by less than 2^-18: Math.round of the doubles is the exact
\* value rounded.  On a half the doubles decide.
estimateCost(painPoint) ==
    LET n == SeverityMultiplier(painPoint.severity)
               * (200 - painPoint.automationPotential)
               * (300 + painPoint.timeCost) * 22
    IN  IF n % 30000 = 15000
        THEN estimateCostInDoubles(painPoint)
        ELSE (2 * n + 30000) \div 60000

agentMapping(type) ==
    CASE type = "repetitive_task" ->
            <<"Backend-Architect", "DevOps-Automator", "Rapid-Prototyper">>
      [] type = "recurring_error" ->
            <<"Senior-Developer", "Reality-Checker", "Performance-Benchmarker">>
      [] type = "workflow_bottleneck" ->
            <<"Workflow-Optimizer", "Senior-Project-Manager", "Performance-Benchmarker">>
      [] type = "manual_process" ->
            <<"Backend-Architect", "DevOps-Automator", "Workflow-Optimizer">>
      [] OTHER -> <<"Rapid-Prototyper">>

selectAgents(painPoint) ==
    LET baseAgents == agentMapping(painPoint.type)
        primary == SubSeq(baseAgents, 1, IF Len(baseAgents) < 2 THEN Len(baseAgents) ELSE 2)
    IN  IF painPoint.severity \in {"high", "critical"}
        THEN Append(primary, "Reality-Checker")
        ELSE primary

specificDeliverables(type) ==
    CASE type = "repetitive_task" ->
            <<"Automated script/tool", "Scheduling configuration", "Error handling system">>
      [] type = "recurring_error" ->
            <<"Error detection system", "Automatic recovery mechanisms", "Monitoring dashboard">>
      [] type = "workflow_bottleneck" ->
            <<"Optimized workflow implementation", "Performance metrics dashboard",
              "Bottleneck elimination report">>
      [] type = "manual_process" ->
            <<"Automation framework", "Process documentation", "Training materials">>
      [] OTHER -> <<>>

generateDeliverables(painPoint) ==
    <<"Fully functional implementation", "Comprehensive documentation",
      "Testing and validation", "Integration guide">>
        \o specificDeliverables(painPoint.type)

assessRisk(painPoint, cost) ==
    LET byPotential == IF painPoint.automationPotential < 60 THEN 2
                       ELSE IF painPoint.automationPotential < 80 THEN 1 ELSE 0
        byCost == IF cost > 400 THEN 2 ELSE IF cost > 250 THEN 1 ELSE 0
        bySeverity == IF painPoint.severity = "critical" THEN 1 ELSE 0
        riskScore == byPotential + byCost + bySeverity
    IN  IF riskScore >= 4 THEN "high" ELSE IF riskScore >= 2 THEN "medium" ELSE "low"

\* A slip: only the upper end of the budget range is enforced.
AboveBudgetOnly(cost, budget) == cost > budget.max

OutsideBudget(cost, budget) == cost < budget.min \/ cost > budget.max

\* estimatedCost > treasury.balance * 0.2; for whole costs this is
\* 5 * cost > balance (see AllocationDivisor).
ExceedsBalanceShare(cost, treasury) == BalanceShareDivisor * cost > treasury.balance

\* `proposal-${Date.now()}`
ProposalId(now) == <<"proposal", now>>

\* generate(config) at clock reading now: <<>> for null, else <<proposal>>.
\* targetROI is destructured and never read.  generateAt is its body after the
\* first line, const estimatedCost = this.estimateCost(painPoint).
generateAt(painPoint, budget, treasury, now, estimatedCost) ==
    IF OutsideBudget(estimatedCost, budget) THEN <<>>
    ELSE IF ExceedsBalanceShare(estimatedCost, treasury) THEN <<>>
    ELSE << [id |-> ProposalId(now),
             painPoint |-> painPoint,
             cost |-> estimatedCost,
             requiredAgents |-> selectAgents(painPoint),
             deliverables |-> generateDeliverables(painPoint),
             expectedTimeSavings |-> painPoint.timeCost,
             automationLevel |-> painPoint.automationPotential,
             riskLevel |-> assessRisk(painPoint, estimatedCost)] >>

generate(painPoint, budget, treasury, now) ==
    generateAt(painPoint, budget, treasury, now, estimateCost(painPoint))

\* ----------------------------------------- SpecGen: calls of generate
\* generate is declared async but awaits nothing: each call runs to its end
\* when it is made, so calls issued together (Promise.all over a map) run one
\* after another within whatever the clock reads meanwhile.

Generate(painPoint, budget, treasury) ==
    /\ Len(generated) < MaxCalls
    /\ generated' = Append(generated,
            [painPoint |-> painPoint, budget |-> budget, treasury |-> treasury,
             result |-> generate(painPoint, budget, treasury, clock)])
    /\ UNCHANGED <<clock, beyondGen>>

\* A millisecond passes.
Tick ==
    /\ clock < MaxClock
    /\ clock' = clock + 1
    /\ UNCHANGED <<generated, beyondGen>>

NextGen ==
    \/ \E painPoint \in GenPainPoints, budget \in GenBudgets, treasury \in GenTreasuries :
          Generate(painPoint, budget, treasury)
    \/ Tick

SpecGen == Init /\ [][NextGen]_vars

\* SpecCost: the same calls over pain points whose cost is decided by the
\* rounding of the doubles.
NextCost ==
    \/ \E painPoint \in CostPainPoints, budget \in CostBudgets, treasury \in CostTreasuries :
          Generate(painPoint, budget, treasury)
    \/ Tick

SpecCost == Init /\ [][NextCost]_vars

\* --------------------------------------- ImpactPredictor (impact-predictor.ts)
\* Scores are whole numbers 0..100; expectedROI is kept in tenths (the source
\* rounds it to one decimal), confidence in thousandths.  Math.round(x) is
\* floor(x + 1/2); for the proposals the model builds, the double arithmetic
\* of the source gives these same values.

predictTimeSavings(proposal) ==
    LET weeklyMinutes == proposal.expectedTimeSavings
    IN  IF weeklyMinutes >= 300 THEN 100
        ELSE IF weeklyMinutes >= 180 THEN 90
        ELSE IF weeklyMinutes >= 120 THEN 80
        ELSE IF weeklyMinutes >= 60 THEN 70
        ELSE IF weeklyMinutes >= 30 THEN 60
        ELSE IF weeklyMinutes >= 15 THEN 50
        ELSE IF weeklyMinutes >= 5 THEN 40
        ELSE 30

severityScore(severity) ==
    CASE severity = "low" -> 40
      [] severity = "medium" -> 60
      [] severity = "high" -> 80
      [] severity = "critical" -> 100

\* severityScore * automationPotential * (1.1 | 1 | 0.9), rounded, at most 100.
predictProblemSolution(proposal) ==
    LET riskTenths == IF proposal.riskLevel = "low" THEN 11
                      ELSE IF proposal.riskLevel = "high" THEN 9 ELSE 10
        n == severityScore(proposal.painPoint.severity)
                * proposal.painPoint.automationPotential * riskTenths
    IN  Min((2 * n + 1000) \div 2000, 100)

\* d.toLowerCase().includes('documentation') || d.toLowerCase().includes('guide'),
\* over the deliverable texts generateDeliverables can produce.
MentionsDocs(d) ==
    d \in {"Comprehensive documentation", "Integration guide", "Process documentation"}

\* 70 + automationLevel * 20, +10 for at most two agents, -10 for four or
\* more, +10 when a deliverable mentions documentation; rounded, within 0..100.
predictUsability(proposal) ==
    LET agents == Len(proposal.requiredAgents)
        hasDocs == \E i \in 1..Len(proposal.deliverables) :
                        MentionsDocs(proposal.deliverables[i])
        whole == 70 + (IF agents <= 2 THEN 10 ELSE IF agents >= 4 THEN -10 ELSE 0)
                    + (IF hasDocs THEN 10 ELSE 0)
        n == 5 * whole + proposal.automationLevel
    IN  Min(100, Max((2 * n + 5) \div 10, 0))

severityBonus(severity) ==
    CASE severity = "low" -> 0
      [] severity = "medium" -> 10
      [] severity = "high" -> 20
      [] severity = "critical" -> 30

predictSustainability(proposal) ==
    LET whole == 60 + severityBonus(proposal.painPoint.severity)
                    + (IF proposal.expectedTimeSavings >= 120 THEN 20
                       ELSE IF proposal.expectedTimeSavings >= 60 THEN 10 ELSE 0)
        n == 10 * whole + proposal.automationLevel
    IN  Min(100, (2 * n + 10) \div 20)

\* Math.round(roi * 10) / 10, in tenths, with
\* roi = weeklyMinutes * 4.33 / 60 * 100 * 6 * (expectedImpact / 100) / cost.
calculateROI(proposal, expectedImpact) ==
    LET n == proposal.expectedTimeSavings * 433 * expectedImpact
    IN  (2 * n + 100 * proposal.cost) \div (200 * proposal.cost)

\* In thousandths, within 0.3 .. 1.0.
calculateConfidence(proposal) ==
    LET confidence ==
            500 + (IF proposal.riskLevel = "low" THEN 200
                   ELSE IF proposal.riskLevel = "high" THEN -100 ELSE 0)
                + proposal.automationLevel * 2
                + (IF proposal.painPoint.severity \in {"high", "critical"} THEN 100 ELSE 0)
    IN  Min(1000, Max(300, confidence))

\* predict(proposal); the reasoning text is left out.
predict(proposal) ==
    LET timeSavings == predictTimeSavings(proposal)
        problemSolution == predictProblemSolution(proposal)
        usability == predictUsability(proposal)
        sustainability == predictSustainability(proposal)
        expectedImpact ==
            (2 * (timeSavings + problemSolution + usability + sustainability) + 4) \div 8
    IN  [expectedImpact |-> expectedImpact,
         expectedROI |-> calculateROI(proposal, expectedImpact),
         confidence |-> calculateConfidence(proposal),
         breakdown |-> [timeSavings |-> timeSavings,
                        problemSolution |-> problemSolution,
                        usability |-> usability,
                        sustainability |-> sustainability]]

\* ------------------------------------------ CEODiscoverySystem (part_002)

\* calculateSeverity: frequency * timeSpent * confidence against 1000, 500, 200;
\* confidence is in hundredths.
calculateSeverity(pattern) ==
    LET score == pattern.frequency * pattern.timeSpent * pattern.confidence
    IN  IF score > 100000 THEN "critical"
        ELSE IF score > 50000 THEN "high"
        ELSE IF score > 20000 THEN "medium"
        ELSE "low"

\* `pain-${Date.now()}-${painPoints.length}`
PainPointId(now, length) == <<"pain", now, length>>

\* A slip: the repetitive test passes at frequency 5.
PainPointsFromFive(pattern, now, length) ==
    IF pattern.type = "repetitive" /\ pattern.frequency >= 5
    THEN << [id |-> PainPointId(now, length),
             type |-> "repetitive_task",
             severity |-> calculateSeverity(pattern),
             timeCost |-> pattern.timeSpent,
             automationPotential |-> 90,
             relatedPatterns |-> <<pattern.id>>] >>
    ELSE <<>>

\* The pain points one pattern adds when `length` are already collected.
\* The three tests are on pattern.type, so at most one of them fires.
PainPointsOf(pattern, now, length) ==
    (IF pattern.type = "repetitive" /\ pattern.frequency > 5
     THEN << [id |-> PainPointId(now, length),
              type |-> "repetitive_task",
              severity |-> calculateSeverity(pattern),
              timeCost |-> pattern.timeSpent,
              automationPotential |-> 90,
              relatedPatterns |-> <<pattern.id>>] >>
     ELSE <<>>)
    \o
    (IF pattern.type = "error" /\ pattern.frequency > 3
     THEN << [id |-> PainPointId(now, length),
              type |-> "recurring_error",
              severity |-> "high",
              timeCost |-> pattern.timeSpent * 2,
              automationPotential |-> 85,
              relatedPatterns |-> <<pattern.id>>] >>
     ELSE <<>>)
    \o
    (IF pattern.type = "bottleneck" /\ pattern.timeSpent > 60
     THEN << [id |-> PainPointId(now, length),
              type |-> "workflow_bottleneck",
              severity |-> "medium",
              timeCost |-> pattern.timeSpent,
              automationPotential |-> 75,
              relatedPatterns |-> <<pattern.id>>] >>
     ELSE <<>>)

RECURSIVE identifyPainPointsFrom(_, _, _)
identifyPainPointsFrom(patterns, now, painPoints) ==
    IF patterns = <<>> THEN painPoints
    ELSE identifyPainPointsFrom(Tail(patterns), now,
            painPoints \o PainPointsOf(Head(patterns), now, Len(painPoints)))

identifyPainPoints(patterns, now) == identifyPainPointsFrom(patterns, now, <<>>)

\* patterns.filter(p => p.confidence >= this.config.minConfidence)
ConfidentPatterns(patterns) ==
    SelectSeq(patterns, LAMBDA p : p.confidence >= MinConfidence)

\* { ...p.proposal, predictedImpact: p.prediction }
WithPrediction(proposal, prediction) ==
    [f \in DOMAIN proposal \cup {"predictedImpact"} |->
        IF f = "predictedImpact" THEN prediction ELSE proposal[f]]

\* The proposal as it was before a prediction was attached.
WithoutPrediction(proposal) ==
    [f \in DOMAIN proposal \ {"predictedImpact"} |-> proposal[f]]

\* A slip: the comparator a - b, ascending.
ComesBeforeAscending(a, b) == a.prediction.expectedROI < b.prediction.expectedROI

\* (a, b) => b.prediction.expectedROI - a.prediction.expectedROI is negative:
\* a is placed before b.
ComesBefore(a, b) == a.prediction.expectedROI > b.prediction.expectedROI

\* e, which stood before all of s, placed into the sorted s: behind the
\* elements that come before it, ahead of those it ties with.
RECURSIVE InsertSorted(_, _)
InsertSorted(e, s) ==
    IF s = <<>> THEN <<e>>
    ELSE IF ~ComesBefore(Head(s), e) THEN <<e>> \o s
    ELSE <<Head(s)>> \o InsertSorted(e, Tail(s))

\* Array.prototype.sort with that comparator: stable.  Inserting from the last
\* element to the first keeps equal elements in their original order.
RECURSIVE SortByROI(_)
SortByROI(predictions) ==
    IF predictions = <<>> THEN <<>>
    ELSE InsertSorted(Head(predictions), SortByROI(Tail(predictions)))

prioritizeProposals(proposals) ==
    LET predictions == [i \in 1..Len(proposals) |->
                            [proposal |-> proposals[i], prediction |-> predict(proposals[i])]]
        sorted == SortByROI(predictions)
    IN  [i \in 1..Len(sorted) |-> WithPrediction(sorted[i].proposal, sorted[i].prediction)]

\* `discovery-${Date.now()}`
SessionId(now) == <<"discovery", now>>

\* new Date(), as the session holds it in memory.
DateAt(now) == [date |-> now]

NewSession(now) ==
    [id |-> SessionId(now), startTime |-> DateAt(now), patterns |-> <<>>,
     painPoints |-> <<>>, proposals |-> <<>>, status |-> "analyzing"]

\* A slip: the catch block returns the session instead of rethrowing.
ReturnedDespiteError(fr) == [fr EXCEPT !.pc = "returned", !.raised = TRUE]

\* catch (error) { ...; throw error; }
Rethrown(fr) == [fr EXCEPT !.pc = "failed", !.raised = TRUE]

\* JSON.stringify(session, null, 2) read back by JSON.parse: numbers, strings,
\* arrays and plain objects come back as they were, a Date comes back as the
\* ISO string of its instant.
JSONOfSession(s) == [s EXCEPT !.startTime = [iso |-> s.startTime.date]]

\* saveSession: fs.writeFile to `${session.id}.json`, replacing what is there.
SavedSessions(files, s) ==
    [name \in DOMAIN files \cup {s.id} |->
        IF name = s.id THEN JSONOfSession(s) ELSE files[name]]

\* ---------------------------- SpecDisc: one ceo_discover call (part_005:55-74)
\* The handler builds a CEODiscoverySystem, awaits startDiscovery and then
\* saveSession.  The treasury file is shared with other processes, whose
\* reserveBudget calls land between the steps; the pattern analyzer and the
\* impact predictor are the handler's collaborators and may reject.

\* new CEODiscoverySystem({budgetRange, ...}), then startDiscovery up to its
\* first await.
Discover(budgetRange) ==
    /\ frame.pc = "idle"
    /\ session' = <<NewSession(clock)>>
    /\ frame' = [frame EXCEPT !.pc = "analyzing", !.budgetRange = budgetRange]
    /\ UNCHANGED <<sessionFiles, ledgerVars, genVars, feedbackVars, improveVars,
                   analyzerVars, daemonVars, statusVars>>

\* Phases 1 and 2: the analyzer's patterns arrive, are filtered by confidence
\* and classified; the status becomes 'proposing' and generateProposals stops
\* at its await of loadTreasury.
Analyzed(patterns) ==
    /\ frame.pc = "analyzing"
    /\ LET kept == ConfidentPatterns(patterns)
       IN  session' = << [session[1] EXCEPT
                            !.patterns = kept,
                            !.painPoints = identifyPainPoints(kept, clock),
                            !.status = "proposing"] >>
    /\ frame' = [frame EXCEPT !.pc = "loadTreasury"]
    /\ UNCHANGED <<sessionFiles, ledgerVars, genVars, feedbackVars, improveVars,
                   analyzerVars, daemonVars, statusVars>>

\* The analyzer rejects.
AnalysisFails ==
    /\ frame.pc = "analyzing"
    /\ frame' = Rethrown(frame)
    /\ UNCHANGED <<session, sessionFiles, ledgerVars, genVars, feedbackVars, improveVars,
                   analyzerVars, daemonVars, statusVars>>

\* loadTreasury: one getSnapshot for the whole loop.
LoadTreasury ==
    /\ frame.pc = "loadTreasury"
    /\ file' = FileAfterLoad(file)
    /\ frame' = [frame EXCEPT !.pc = "generating",
                              !.treasury = <<Snapshot(LoadedData(file))>>,
                              !.proposals = <<>>,
                              !.next = 1]
    /\ UNCHANGED <<session, sessionFiles, nextId, last, procs,
                   genVars, feedbackVars, improveVars, analyzerVars, daemonVars, statusVars>>

\* One turn of the loop of generateProposals.
GenerateNext ==
    /\ frame.pc = "generating"
    /\ frame.next <= Len(session[1].painPoints)
    /\ frame' = [frame EXCEPT
            !.proposals = @ \o generate(session[1].painPoints[frame.next],
                                        frame.budgetRange, frame.treasury[1], clock),
            !.next = @ + 1]
    /\ UNCHANGED <<session, sessionFiles, ledgerVars, genVars, feedbackVars, improveVars,
                   analyzerVars, daemonVars, statusVars>>

\* The loop is over: session.proposals is assigned and prioritizeProposals runs
\* to its end; the session is completed and returned.
Prioritized ==
    /\ frame.pc = "generating"
    /\ frame.next > Len(session[1].painPoints)
    /\ session' = << [session[1] EXCEPT
                        !.proposals = prioritizeProposals(frame.proposals),
                        !.status = "completed"] >>
    /\ frame' = [frame EXCEPT !.pc = "returned"]
    /\ UNCHANGED <<sessionFiles, ledgerVars, genVars, feedbackVars, improveVars,
                   analyzerVars, daemonVars, statusVars>>

\* The predictor rejects: session.proposals holds the unsorted proposals.
PredictionFails ==
    /\ frame.pc = "generating"
    /\ frame.next > Len(session[1].painPoints)
    /\ frame.proposals # <<>>
    /\ session' = << [session[1] EXCEPT !.proposals = frame.proposals] >>
    /\ frame' = Rethrown(frame)
    /\ UNCHANGED <<sessionFiles, ledgerVars, genVars, feedbackVars, improveVars,
                   analyzerVars, daemonVars, statusVars>>

\* The handler saves the session startDiscovery returned.
SaveSession ==
    /\ frame.pc = "returned"
    /\ sessionFiles' = SavedSessions(sessionFiles, session[1])
    /\ frame' = [frame EXCEPT !.pc = "saved"]
    /\ UNCHANGED <<session, ledgerVars, genVars, feedbackVars, improveVars,
                   analyzerVars, daemonVars, statusVars>>

\* Another process reserves budget on the shared ledger.
ReserveElsewhere(amount) ==
    /\ frame.pc \notin {"idle", "saved", "failed"}
    /\ ReserveBudget(amount)

\* A millisecond passes while the call is under way.
TickDuring ==
    /\ frame.pc \notin {"idle", "saved", "failed"}
    /\ clock < MaxClock
    /\ clock' = clock + 1
    /\ UNCHANGED <<generated, ledgerVars, discVars, feedbackVars, improveVars,
                   analyzerVars, daemonVars, statusVars>>

NextDisc ==
    \/ \E budgetRange \in DiscBudgets : Discover(budgetRange)
    \/ \E patterns \in AnalyzerResults : Analyzed(patterns)
    \/ AnalysisFails
    \/ LoadTreasury
    \/ GenerateNext
    \/ Prioritized
    \/ PredictionFails
    \/ SaveSession
    \/ \E amount \in DiscAmounts : ReserveElsewhere(amount)
    \/ TickDuring

SpecDisc == Init /\ [][NextDisc]_vars

\* SpecPain: the same call left alone, no collaborator rejecting, over
\* patterns on the edges of identifyPainPoints' tests.
NextPain ==
    \/ \E budgetRange \in DiscBudgets : Discover(budgetRange)
    \/ \E patterns \in PainResults : Analyzed(patterns)
    \/ LoadTreasury
    \/ GenerateNext
    \/ Prioritized
    \/ SaveSession

SpecPain == Init /\ [][NextPain]_vars

\* ------------------------------------------------- FeedbackLoop (part_001)

\* A slip: the average cut off instead of rounded.
OverallImpactTruncated(feedback) ==
    (feedback.timeSavings + feedback.problemSolution
        + feedback.usability + feedback.sustainability) \div 4

\* Math.round((timeSavings + problemSolution + usability + sustainability) / 4)
OverallImpact(feedback) ==
    (2 * (feedback.timeSavings + feedback.problemSolution
            + feedback.usability + feedback.sustainability) + 4) \div 8

Abs(x) == IF x < 0 THEN -x ELSE x

\* All proposals of the session files, in the order loadProposal meets them:
\* the files as readdir lists them, each session's proposals in array order.
RECURSIVE ProposalsInOrder(_, _)
ProposalsInOrder(files, order) ==
    IF order = <<>> THEN <<>>
    ELSE files[Head(order)].proposals \o ProposalsInOrder(files, Tail(order))

\* loadProposal: the first proposal with that id, <<>> for null.
loadProposal(files, order, proposalId) ==
    LET matching == SelectSeq(ProposalsInOrder(files, order),
                              LAMBDA p : p.id = proposalId)
    IN  IF matching = <<>> THEN <<>> ELSE <<Head(matching)>>

\* proposal?.predictedImpact: <<>> for undefined.
PredictionOf(proposal) ==
    IF proposal = <<>> THEN <<>>
    ELSE IF "predictedImpact" \in DOMAIN proposal[1]
         THEN <<proposal[1].predictedImpact>>
         ELSE <<>>

\* predictionAccuracy: 0 without a prediction.
predictionAccuracy(prediction, actualOverallImpact) ==
    IF prediction = <<>> THEN 0
    ELSE Max(0, 100 - Abs(prediction[1].expectedImpact - actualOverallImpact))

\* calculateActualROI, an unrounded quotient kept as a fraction:
\* timeSavings / 100 * 300 * 4.33 / 60 * 100 * 6 / actualCost.
calculateActualROI(timeSavingsScore, actualCost) ==
    [num |-> timeSavingsScore * 1299, den |-> 10 * actualCost]

\* The ActualImpact object collectFeedback builds; comments, the recommend
\* flag and the timeline text are copied through and left out here.
ActualImpact(proposalId, projectId, feedback, prediction, now) ==
    [proposalId |-> proposalId,
     projectId |-> projectId,
     completedAt |-> now,
     actualTimeSavings |-> feedback.timeSavings,
     actualProblemSolution |-> feedback.problemSolution,
     actualUsability |-> feedback.usability,
     actualSustainability |-> feedback.sustainability,
     actualOverallImpact |-> OverallImpact(feedback),
     predictedImpact |-> IF prediction = <<>> THEN <<>>
                         ELSE <<prediction[1].expectedImpact>>,
     predictionAccuracy |-> predictionAccuracy(prediction, OverallImpact(feedback)),
     userSatisfaction |-> feedback.userSatisfaction,
     actualCost |-> feedback.actualCost,
     actualROI |-> calculateActualROI(feedback.timeSavings, feedback.actualCost)]

\* `feedback-${feedback.proposalId}.json`
FeedbackFileName(proposalId) == <<"feedback", proposalId>>

\* `training-${proposal.id}.json`
TrainingFileName(proposalId) == <<"training", proposalId>>

\* fs.writeFile: the file is created or replaced.
WriteFileTo(dir, name, content) ==
    [n \in DOMAIN dir \cup {name} |-> IF n = name THEN content ELSE dir[n]]

\* A slip: a training example for every proposal that was found.
TrainWheneverFound(proposal, prediction) == proposal # <<>>

\* if (proposal && prediction)
ShouldTrain(proposal, prediction) == proposal # <<>> /\ prediction # <<>>

\* createTrainingData's record; learningWeight = min(1, error / 50), in fiftieths.
TrainingData(proposal, prediction, actualImpact) ==
    [proposal |-> proposal,
     prediction |-> prediction,
     actualImpact |-> actualImpact,
     learningWeight |->
        IF prediction = <<>> THEN 0
        ELSE Min(50, Abs(prediction[1].expectedImpact - actualImpact.actualOverallImpact))]

RECURSIVE generateProposalsFor(_, _, _, _)
\* The loop of generateProposals, run through.
generateProposalsFor(painPoints, budgetRange, treasury, now) ==
    IF painPoints = <<>> THEN <<>>
    ELSE generate(Head(painPoints), budgetRange, treasury, now)
            \o generateProposalsFor(Tail(painPoints), budgetRange, treasury, now)

\* The session of a discovery run made at `now` on a fresh ledger: as
\* startDiscovery returns it when `predicted`, and as getCurrentSession shows it
\* after the predictor rejected otherwise.
SessionOf(patterns, budgetRange, now, predicted) ==
    LET kept == ConfidentPatterns(patterns)
        painPoints == identifyPainPoints(kept, now)
        proposals == generateProposalsFor(painPoints, budgetRange,
                                          Snapshot(Defaults), now)
    IN  [id |-> SessionId(now),
         startTime |-> DateAt(now),
         patterns |-> kept,
         painPoints |-> painPoints,
         proposals |-> IF predicted THEN prioritizeProposals(proposals) ELSE proposals,
         status |-> IF predicted THEN "completed" ELSE "proposing"]

\* ------------------------------- SpecFeedback: saveSession and collectFeedback

\* Sessions saved with saveSession: discovery runs of the wider budget range.
StoredSessions ==
    { SessionOf(patterns, [min |-> 100, max |-> 800], now, predicted) :
        patterns \in FeedbackPatternLists, now \in SessionTimes, predicted \in BOOLEAN }

\* saveSession(session), by whoever holds a session.
StoreSession(s) ==
    /\ sessionFiles' = SavedSessions(sessionFiles, s)
    /\ UNCHANGED <<session, frame, feedbackFiles, trainingFiles, lastFeedback,
                   ledgerVars, genVars, improveVars, analyzerVars, daemonVars, statusVars>>

\* collectFeedback(proposalId, projectId, feedback), with readdir listing the
\* session files in `order`.
CollectFeedback(proposalId, projectId, feedback, order) ==
    /\ lastFeedback.calls < MaxFeedbacks
    /\ LET proposal == loadProposal(sessionFiles, order, proposalId)
           prediction == PredictionOf(proposal)
           actualImpact == ActualImpact(proposalId, projectId, feedback, prediction, clock)
       IN  /\ feedbackFiles' =
                 WriteFileTo(feedbackFiles, FeedbackFileName(proposalId), actualImpact)
           /\ trainingFiles' =
                 IF ShouldTrain(proposal, prediction)
                 THEN WriteFileTo(trainingFiles, TrainingFileName(proposal[1].id),
                                  TrainingData(proposal[1], prediction, actualImpact))
                 ELSE trainingFiles
           /\ lastFeedback' = [calls |-> lastFeedback.calls + 1,
                               proposalId |-> proposalId,
                               feedback |-> feedback,
                               proposal |-> proposal,
                               returned |-> <<actualImpact>>]
    /\ UNCHANGED <<discVars, ledgerVars, genVars, improveVars,
                   analyzerVars, daemonVars, statusVars>>

\* The orders readdir may list the session files in.
ReaddirOrders ==
    LET names == DOMAIN sessionFiles
        n == Cardinality(names)
    IN  {o \in [1..n -> names] : \A i, j \in 1..n : o[i] = o[j] => i = j}

\* Ids to ask feedback for: those of stored proposals, and one never issued.
FeedbackIds ==
    {ProposalId(-1)}
        \cup UNION { {sessionFiles[n].proposals[i].id : i \in 1..Len(sessionFiles[n].proposals)}
                     : n \in DOMAIN sessionFiles }

NextFeedback ==
    \/ \E s \in StoredSessions : StoreSession(s)
    \/ \E proposalId \in FeedbackIds, projectId \in ProjectIds,
          feedback \in FeedbackInputs, order \in ReaddirOrders :
          CollectFeedback(proposalId, projectId, feedback, order)

SpecFeedback == Init /\ [][NextFeedback]_vars

\* Quotients the source never rounds are kept as fractions num/den, den > 0.

RECURSIVE GCD(_, _)
GCD(a, b) == IF b = 0 THEN a ELSE GCD(b, a % b)

\* num/den in lowest terms.
Frac(num, den) ==
    LET g == GCD(Abs(num), den)
    IN  [num |-> num \div g, den |-> den \div g]

\* The least common multiple of two denominators.
LCM(a, b) == (a \div GCD(a, b)) * b

FracAdd(a, b) ==
    LET den == LCM(a.den, b.den)
    IN  Frac(a.num * (den \div a.den) + b.num * (den \div b.den), den)

FracSub(a, b) == FracAdd(a, [num |-> -b.num, den |-> b.den])

FracLess(a, b) == FracSub(a, b).num < 0



\* ------------------------------ FeedbackLoop: what it reads back (part_001)

\* The orders readdir may list the files of a directory in.
ListingsOf(dir) ==
    LET names == DOMAIN dir
        n == Cardinality(names)
    IN  {o \in [1..n -> names] : \A i, j \in 1..n : o[i] = o[j] => i = j}

\* getTrainingData: the training files' contents, as readdir lists them.
getTrainingData(files, order) == [i \in 1..Len(order) |-> files[order[i]]]

\* loadAllFeedback: the feedback files' contents, as readdir lists them.
loadAllFeedback(files, order) == [i \in 1..Len(order) |-> files[order[i]]]

RECURSIVE SumOver(_, _)
\* feedbacks.reduce((sum, f) => sum + (f.predictionAccuracy || 0), 0)
SumOver(feedbacks, i) ==
    IF i = 0 THEN 0 ELSE feedbacks[i].predictionAccuracy + SumOver(feedbacks, i - 1)

RECURSIVE SumOfSatisfaction(_, _)
\* feedbacks.reduce((sum, f) => sum + f.userSatisfaction, 0)
SumOfSatisfaction(feedbacks, i) ==
    IF i = 0 THEN 0
    ELSE feedbacks[i].userSatisfaction + SumOfSatisfaction(feedbacks, i - 1)

RECURSIVE InsertByCompletion(_, _)
InsertByCompletion(f, sorted) ==
    IF sorted = <<>> THEN <<f>>
    ELSE IF f.completedAt < Head(sorted).completedAt THEN <<f>> \o sorted
    ELSE <<Head(sorted)>> \o InsertByCompletion(f, Tail(sorted))

RECURSIVE SortByCompletion(_)
\* feedbacks.sort by completedAt; the sort is stable.
SortByCompletion(feedbacks) ==
    IF feedbacks = <<>> THEN <<>>
    ELSE InsertByCompletion(feedbacks[Len(feedbacks)],
                            SortByCompletion(SubSeq(feedbacks, 1, Len(feedbacks) - 1)))

\* recentAvg - oldAvg of two halves, as a fraction.
HalvesApart(old, recent) ==
    FracSub(Frac(SumOver(recent, Len(recent)), Len(recent)),
            Frac(SumOver(old, Len(old)), Len(old)))

\* calculateImprovementTrend, in hundredths: accuracies lie between 0 and 100,
\* so the clamp to [-1, 1] changes nothing.
calculateImprovementTrend(feedbacks) ==
    IF Len(feedbacks) < 5 THEN Frac(0, 1)
    ELSE HalvesApart(SubSeq(SortByCompletion(feedbacks), 1, Len(feedbacks) \div 2),
                     SubSeq(SortByCompletion(feedbacks), (Len(feedbacks) \div 2) + 1,
                            Len(feedbacks)))

\* getLearningMetrics; the average ROI and the confidence level, which nothing
\* modelled reads, are left out.
getLearningMetrics(feedbacks) ==
    IF Len(feedbacks) = 0
    THEN [totalProjects |-> 0, averagePredictionAccuracy |-> Frac(0, 1),
          averageUserSatisfaction |-> Frac(0, 1), improvementTrend |-> Frac(0, 1)]
    ELSE [totalProjects |-> Len(feedbacks),
          averagePredictionAccuracy |->
              Frac(SumOver(feedbacks, Len(feedbacks)), Len(feedbacks)),
          averageUserSatisfaction |->
              Frac(SumOfSatisfaction(feedbacks, Len(feedbacks)), Len(feedbacks)),
          improvementTrend |-> calculateImprovementTrend(feedbacks)]

\* f.userSatisfaction < 60 || f.actualOverallImpact < 60
Underperforms(f) == f.userSatisfaction < 60 \/ f.actualOverallImpact < 60

\* patterns.add(type): a Set keeps insertion order and no duplicates.
AddPattern(patterns, type) ==
    IF \E k \in 1..Len(patterns) : patterns[k] = type THEN patterns
    ELSE Append(patterns, type)

RECURSIVE UnderperformingFrom(_, _, _, _, _)
\* The loop over the underperforming outcomes, from the i-th on:
\* const proposal = proposals[i], with i counting the underperforming outcomes
\* and proposals holding one entry per outcome read.
UnderperformingFrom(underperforming, proposals, feedbacks, i, patterns) ==
    IF i > Len(underperforming) THEN patterns
    ELSE LET proposal == proposals[i]
         IN  UnderperformingFrom(underperforming, proposals, feedbacks, i + 1,
                 IF proposal # <<>>
                 THEN AddPattern(patterns, proposal[1].painPoint.type)
                 ELSE patterns)

\* identifyUnderperformingPatterns, its `patterns`; the recommendation texts
\* are left out.
identifyUnderperformingPatterns(feedbackDir, feedbackOrder, sessionDir, sessionOrder) ==
    LET feedbacks == loadAllFeedback(feedbackDir, feedbackOrder)
        proposals == [k \in 1..Len(feedbacks) |->
                         loadProposal(sessionDir, sessionOrder, feedbacks[k].proposalId)]
        underperforming == SelectSeq(feedbacks, Underperforms)
    IN  UnderperformingFrom(underperforming, proposals, feedbacks, 1, <<>>)

\* ------------------------------------------------- NeuralTrainer (part_006)
\* Accuracies are quotients the source never rounds; they are kept as
\* fractions num/den with den > 0.  Feature values and weights are in
\* thousandths.

\* The models of one type among the files of the models directory.
ModelsOfType(files, type) ==
    {m \in {files[n] : n \in DOMAIN files} : m.type = type}

\* getLatestModel: the model of that type with the highest version, <<>> for
\* null.
getLatestModel(files, type) ==
    LET models == ModelsOfType(files, type)
    IN  IF models = {} THEN <<>>
        ELSE <<CHOOSE m \in models : \A o \in models : o.version <= m.version>>

\* model?.version || 0
getLatestModelVersion(files, type) ==
    LET model == getLatestModel(files, type)
    IN  IF model = <<>> THEN 0 ELSE model[1].version

\* model?.accuracy || 0
evaluateCurrentModel(files, type) ==
    LET model == getLatestModel(files, type)
    IN  IF model = <<>> THEN Frac(0, 1) ELSE model[1].accuracy

\* model?.weights || {}
loadModelWeights(files, type) ==
    LET model == getLatestModel(files, type)
    IN  IF model = <<>> THEN <<>> ELSE model[1].weights

Flag(b) == IF b THEN 1000 ELSE 0

\* extractFeatures, in thousandths.
extractFeatures(data) ==
    LET proposal == data.proposal
        prediction == data.prediction
    IN  [severity_low |-> Flag(proposal.painPoint.severity = "low"),
         severity_medium |-> Flag(proposal.painPoint.severity = "medium"),
         severity_high |-> Flag(proposal.painPoint.severity = "high"),
         severity_critical |-> Flag(proposal.painPoint.severity = "critical"),
         time_cost |-> proposal.painPoint.timeCost * 10,
         automation_potential |-> proposal.painPoint.automationPotential * 10,
         cost |-> proposal.cost,
         agent_count |-> Len(proposal.requiredAgents) * 1000,
         risk_low |-> Flag(proposal.riskLevel = "low"),
         risk_medium |-> Flag(proposal.riskLevel = "medium"),
         risk_high |-> Flag(proposal.riskLevel = "high"),
         expected_savings |-> proposal.expectedTimeSavings * 10,
         automation_level |-> proposal.automationLevel * 10,
         predicted_impact |-> IF prediction = <<>> THEN 0
                              ELSE prediction[1].expectedImpact * 10,
         predicted_roi |-> IF prediction = <<>> THEN 0
                           ELSE prediction[1].expectedROI * 10,
         confidence |-> IF prediction = <<>> \/ prediction[1].confidence = 0 THEN 500
                        ELSE prediction[1].confidence]

\* extractCostFeatures, in thousandths; time_factor is cut to thousandths.
extractCostFeatures(data) ==
    LET proposal == data.proposal
    IN  [severity_multiplier |-> SeverityMultiplier(proposal.painPoint.severity) * 100,
         complexity |-> 2000 - proposal.painPoint.automationPotential * 10,
         time_factor |-> 1000 + (proposal.painPoint.timeCost * 10) \div 3,
         agent_count |-> Len(proposal.requiredAgents) * 1000,
         risk_factor |-> CASE proposal.riskLevel = "low" -> 1000
                           [] proposal.riskLevel = "medium" -> 1200
                           [] proposal.riskLevel = "high" -> 1500]

\* weights[key] || 0
WeightOf(weights, key) == IF key \in DOMAIN weights THEN weights[key] ELSE 0

RECURSIVE WeightedSum(_, _, _)
\* The sum of features[key] * (weights[key] || 0) over `keys`, in millionths.
WeightedSum(features, weights, keys) ==
    IF keys = {} THEN 0
    ELSE LET key == CHOOSE k \in keys : TRUE
         IN  features[key] * WeightOf(weights, key)
                + WeightedSum(features, weights, keys \ {key})

\* predict: Math.max(0, Math.min(100, prediction * 50 + 50)); a whole number
\* whenever the weighted sum is a multiple of 1/50, as it is for weights of 0.
predictWith(features, weights) ==
    Max(0, Min(100, (WeightedSum(features, weights, DOMAIN features) \div 20000) + 50))

\* The backward pass over one example: modelWeights[key] = (modelWeights[key]
\* || 0) + adjustmentFactor * features[key] for every key of the features,
\* with adjustmentFactor = 0.01 * error * learningWeight (learningWeight in
\* fiftieths).  The sum is cut to thousandths; it is exact when the factor
\* is 0.
AdjustedWeights(features, weights, error, learningWeight) ==
    [key \in DOMAIN weights \cup DOMAIN features |->
        IF key \in DOMAIN features
        THEN WeightOf(weights, key)
                + (error * learningWeight * features[key]) \div 5000
        ELSE weights[key]]

\* What the training loop reads of each example: its features, its label and
\* its learningWeight.
ImpactExamples(trainingData) ==
    [i \in 1..Len(trainingData) |->
        [features |-> extractFeatures(trainingData[i]),
         label |-> trainingData[i].actualImpact.actualOverallImpact,
         weight |-> trainingData[i].learningWeight]]

CostExamples(trainingData) ==
    [i \in 1..Len(trainingData) |->
        [features |-> extractCostFeatures(trainingData[i]),
         label |-> trainingData[i].actualImpact.actualCost,
         weight |-> trainingData[i].learningWeight]]

\* What one example adds to totalError: Math.abs(error) for the impact
\* predictor, Math.abs(error / label) * 100 for the cost estimator.
ErrorMeasure(type, error, label) ==
    IF type = "cost_estimator" THEN Frac(100 * Abs(error), label)
    ELSE Frac(Abs(error), 1)

RECURSIVE Epoch(_, _, _, _)
\* One pass of the inner loop over the examples: the weights it ends with and
\* its totalError.
Epoch(type, examples, weights, totalError) ==
    IF examples = <<>> THEN [weights |-> weights, totalError |-> totalError]
    ELSE LET example == Head(examples)
             error == example.label - predictWith(example.features, weights)
         IN  Epoch(type, Tail(examples),
                   AdjustedWeights(example.features, weights, error, example.weight),
                   FracAdd(totalError, ErrorMeasure(type, error, example.label)))

\* 100 - totalError / features.length, for the cost estimator
\* 100 - Math.min(100, totalError / features.length); <<>> for NaN (no examples).
EpochAccuracy(type, totalError, length) ==
    IF length = 0 THEN <<>>
    ELSE LET mean == Frac(totalError.num, totalError.den * length)
             hundred == Frac(100, 1)
         IN  IF type = "cost_estimator" /\ FracLess(hundred, mean)
             THEN <<Frac(0, 1)>>
             ELSE <<FracSub(hundred, mean)>>

\* if (accuracy > bestAccuracy) bestAccuracy = accuracy: false for NaN.
BestOf(bestAccuracy, accuracy) ==
    IF accuracy # <<>> /\ FracLess(bestAccuracy, accuracy[1])
    THEN accuracy[1] ELSE bestAccuracy

RECURSIVE RunEpochs(_, _, _, _, _)
\* The rest of the training loop after a pass that ended with the weights
\* `passed` and brought bestAccuracy to `best`.  A pass that changes neither
\* is repeated unchanged by all that follow.
AfterEpoch(type, examples, weights, bestAccuracy, epochs, passed, best) ==
    IF passed = weights /\ best = bestAccuracy
    THEN [weights |-> weights, bestAccuracy |-> best]
    ELSE RunEpochs(type, examples, passed, best, epochs - 1)

EpochDone(type, examples, weights, bestAccuracy, epochs, pass) ==
    AfterEpoch(type, examples, weights, bestAccuracy, epochs, pass.weights,
               BestOf(bestAccuracy,
                      EpochAccuracy(type, pass.totalError, Len(examples))))

\* The training loop: the weights and the bestAccuracy after `epochs` passes.
RunEpochs(type, examples, weights, bestAccuracy, epochs) ==
    IF epochs = 0 THEN [weights |-> weights, bestAccuracy |-> bestAccuracy]
    ELSE EpochDone(type, examples, weights, bestAccuracy, epochs,
                   Epoch(type, examples, weights, Frac(0, 1)))

ExamplesOf(type, trainingData) ==
    IF type = "cost_estimator" THEN CostExamples(trainingData)
    ELSE ImpactExamples(trainingData)

\* `impact-predictor-${Date.now()}`, `cost-estimator-${Date.now()}`
ModelId(type, now) == <<type, now>>

\* The NeuralModel a training run builds from the weights it loaded and the
\* version it read; metadata repeats the epochs, the learning rate and the
\* weights' keys.
NeuralModel(type, trainingData, latestVersion, now, trained) ==
    [id |-> ModelId(type, now),
     type |-> type,
     version |-> latestVersion + 1,
     trainedAt |-> now,
     trainingSize |-> Len(trainingData),
     accuracy |-> trained.bestAccuracy,
     weights |-> trained.weights]

TrainedModel(type, trainingData, epochs, weights, latestVersion, now) ==
    NeuralModel(type, trainingData, latestVersion, now,
                RunEpochs(type, ExamplesOf(type, trainingData), weights,
                          Frac(0, 1), epochs))

\* `${model.type}-v${model.version}.json`
ModelFileName(model) == <<model.type, model.version>>

\* saveModel: fs.writeFile, creating or replacing the file.
saveModel(files, model) == WriteFileTo(files, ModelFileName(model), model)

\* The TrainingResult; epochsCompleted and trainingTime are left out.
TrainingResult(model, initialAccuracy) ==
    [modelId |-> model.id,
     finalAccuracy |-> model.accuracy,
     improvementPercent |-> FracSub(model.accuracy, initialAccuracy)]

\* A training run that nothing interrupts: every read sees the same files.
SavedRun(files, type, model) ==
    [files |-> saveModel(files, model),
     result |-> TrainingResult(model, evaluateCurrentModel(files, type))]

TrainingRun(files, type, trainingData, epochs, now) ==
    SavedRun(files, type,
             TrainedModel(type, trainingData, epochs,
                          loadModelWeights(files, type),
                          getLatestModelVersion(files, type), now))

trainImpactPredictor(files, trainingData, epochs, now) ==
    TrainingRun(files, "impact_predictor", trainingData, epochs, now)

trainCostEstimator(files, trainingData, epochs, now) ==
    TrainingRun(files, "cost_estimator", trainingData, epochs, now)

\* ------------------------- ContinuousImprovement (continuous-improvement.ts)
\* expectedImprovement is in tenths of a percent, actualImprovement a
\* fraction; an action not yet executed has <<>> for both executedAt and
\* actualImprovement.

\* A slip: no retraining is due before the first one.
shouldRetrainOnceTrained(imp, now) ==
    IF imp.lastTrainingTime = <<>> THEN FALSE
    ELSE now - imp.lastTrainingTime[1] >= imp.config.retrainingInterval * 3600000

\* shouldRetrain: hours since the last training >= retrainingInterval.
shouldRetrain(imp, now) ==
    IF imp.lastTrainingTime = <<>> THEN TRUE
    ELSE now - imp.lastTrainingTime[1] >= imp.config.retrainingInterval * 3600000

ImprovementAction(id, type, reason, expectedImprovement) ==
    [id |-> id, type |-> type, reason |-> reason,
     expectedImprovement |-> expectedImprovement,
     executedAt |-> <<>>, actualImprovement |-> <<>>]

\* checkAndImprove's result, from what its four reads returned.
checkAndImprove(imp, trainingData, patterns, metrics, now) ==
    (IF Len(trainingData) >= imp.config.autoTrainThreshold
     THEN <<ImprovementAction(<<"retrain", now>>, "retrain_model",
                              <<Len(trainingData), "new training examples available">>,
                              50)>>
     ELSE <<>>)
    \o (IF shouldRetrain(imp, now)
        THEN <<ImprovementAction(<<"scheduled-retrain", now>>, "retrain_model",
                                 "Scheduled retraining interval reached", 30)>>
        ELSE <<>>)
    \o (IF Len(patterns) > 0
        THEN <<ImprovementAction(<<"adjust", now>>, "adjust_algorithm",
                                 <<"Underperforming patterns", patterns>>, 80)>>
        ELSE <<>>)
    \o (IF FracLess(metrics.averagePredictionAccuracy, Frac(70, 1))
            /\ metrics.totalProjects > 5
        THEN <<ImprovementAction(<<"improve-accuracy", now>>, "update_weights",
                                 <<"Low prediction accuracy",
                                   metrics.averagePredictionAccuracy>>, 150)>>
        ELSE <<>>)

\* What getOptimizationStatus returns, from the metrics it read and the
\* actions checkAndImprove gave it; lastImprovement is <<>> for undefined.
OptimizationStatus(metrics, pendingActions, improvementHistory) ==
    [isOptimal |-> /\ FracLess(Frac(80, 1), metrics.averagePredictionAccuracy)
                   /\ FracLess(Frac(85, 1), metrics.averageUserSatisfaction)
                   /\ ~FracLess(metrics.improvementTrend, Frac(0, 1))
                   /\ Len(pendingActions) = 0,
     metrics |-> metrics,
     pendingActions |-> pendingActions,
     lastImprovement |-> IF improvementHistory = <<>> THEN <<>>
                         ELSE <<improvementHistory[Len(improvementHistory)]>>]

getOptimizationStatus(imp, trainingData, patterns, metrics, now) ==
    OptimizationStatus(metrics,
                       checkAndImprove(imp, trainingData, patterns, metrics, now),
                       imp.improvementHistory)

\* (impactResult.improvementPercent + costResult.improvementPercent) / 2
MeanOf(a, b) == LET sum == FracAdd(a, b) IN Frac(sum.num, sum.den * 2)

\* What executing one action of a given type does when nothing rejects: the
\* models directory afterwards, the action's actualImprovement and, for a
\* retraining, the new lastTrainingTime.
Retrained(impactResult, costResult, now) ==
    [files |-> costResult.files,
     actualImprovement |-> MeanOf(impactResult.result.improvementPercent,
                                  costResult.result.improvementPercent),
     lastTrainingTime |-> <<now>>]

\* The cost estimator is trained on the directory the impact predictor's
\* training left.
RetrainedAfter(impactResult, trainingData, now) ==
    Retrained(impactResult,
              trainCostEstimator(impactResult.files, trainingData, 100, now),
              now)

executeRetraining(files, trainingData, now) ==
    RetrainedAfter(trainImpactPredictor(files, trainingData, 100, now),
                   trainingData, now)

executeAlgorithmAdjustment(files, lastTrainingTime) ==
    [files |-> files, actualImprovement |-> Frac(5, 1),
     lastTrainingTime |-> lastTrainingTime]

WeightsUpdated(result, lastTrainingTime) ==
    [files |-> result.files,
     actualImprovement |-> result.result.improvementPercent,
     lastTrainingTime |-> lastTrainingTime]

executeWeightUpdate(files, trainingData, now, lastTrainingTime) ==
    WeightsUpdated(trainImpactPredictor(files, trainingData, 200, now),
                   lastTrainingTime)

executeStrategyChange(files, lastTrainingTime) ==
    [files |-> files, actualImprovement |-> Frac(7, 1),
     lastTrainingTime |-> lastTrainingTime]

\* The switch of executeImprovements.
Executed(action, files, trainingData, now, lastTrainingTime) ==
    CASE action.type = "retrain_model" -> executeRetraining(files, trainingData, now)
      [] action.type = "adjust_algorithm" ->
            executeAlgorithmAdjustment(files, lastTrainingTime)
      [] action.type = "update_weights" ->
            executeWeightUpdate(files, trainingData, now, lastTrainingTime)
      [] action.type = "change_strategy" ->
            executeStrategyChange(files, lastTrainingTime)

\* The steps of an action that write a file and so may reject: saveModel of
\* the impact predictor, and for a retraining saveModel of the cost estimator
\* after it.  The reads behind an action catch their errors.
RejectingSteps(action) ==
    CASE action.type = "retrain_model" -> {"impact_predictor", "cost_estimator"}
      [] action.type = "update_weights" -> {"impact_predictor"}
      [] OTHER -> {}

\* The models directory when an action's saveModel rejected at `step`: the
\* retraining's impact predictor is saved by then if the cost estimator's
\* write is the one that rejected.
FilesWhenRejected(action, step, files, trainingData, now) ==
    IF action.type = "retrain_model" /\ step = "cost_estimator"
    THEN trainImpactPredictor(files, trainingData, 100, now).files
    ELSE files

\* --------------- SpecImprove: checkAndImprove and executeImprovements
\* One ContinuousImprovement, as the daemon holds it, beside the feedback loop
\* that fills the feedback and training directories.  checkAndImprove only
\* reads; executeImprovements is followed action by action, each action run
\* to its end or to the write that rejects.

\* Sessions the discovery system saved: one that found a repetitive task and,
\* a millisecond later, one that found a bottleneck, each with its predictions.
ImproveSessions ==
    { SessionOf(<<CHOOSE p \in SessionPatterns : p.id = "p1">>,
                [min |-> 100, max |-> 800], 0, TRUE),
      SessionOf(<<CHOOSE p \in SessionPatterns : p.id = "p2">>,
                [min |-> 100, max |-> 800], 1, TRUE) }

\* userSatisfaction as the user reports it.
Satisfactions == {50, 90}

\* The feedback of a project that went as predicted: the four scores are the
\* prediction's breakdown, the cost is the proposal's.
OutcomeAsPredicted(proposal, userSatisfaction) ==
    [timeSavings |-> proposal.predictedImpact.breakdown.timeSavings,
     problemSolution |-> proposal.predictedImpact.breakdown.problemSolution,
     usability |-> proposal.predictedImpact.breakdown.usability,
     sustainability |-> proposal.predictedImpact.breakdown.sustainability,
     userSatisfaction |-> userSatisfaction,
     actualCost |-> proposal.cost]

\* collectFeedback's inputs in SpecImprove: the project went as predicted, and
\* its user is satisfied or is not.
ImproveFeedbacks(proposalId, order) ==
    { OutcomeAsPredicted(loadProposal(sessionFiles, order, proposalId)[1], s) :
        s \in Satisfactions }

\* The examples a directory of training files holds, each with its file name.
ExamplesIn(files) == {<<name, files[name]>> : name \in DOMAIN files}

\* checkAndImprove(), its reads listing the directories in the given orders.
CheckAndImprove(trainingOrder, feedbackOrder, sessionOrder) ==
    /\ cycle.checks < MaxChecks
    /\ cycle' = [cycle EXCEPT
            !.checks = @ + 1,
            !.checked =
                checkAndImprove(
                    improvement,
                    getTrainingData(trainingFiles, trainingOrder),
                    identifyUnderperformingPatterns(feedbackFiles, feedbackOrder,
                                                    sessionFiles, sessionOrder),
                    getLearningMetrics(loadAllFeedback(feedbackFiles, feedbackOrder)),
                    clock)]
    /\ UNCHANGED <<improvement, modelFiles, trainers, ledgerVars, genVars, discVars,
                   feedbackVars, analyzerVars, daemonVars, statusVars>>

\* What a getOptimizationStatus call on the object imp leaves in `status`.
StatusOf(imp, tool, trainingOrder, feedbackOrder, sessionOrder) ==
    [calls |-> status.calls + 1,
     tool |-> tool,
     returned |->
        <<getOptimizationStatus(
            imp,
            getTrainingData(trainingFiles, trainingOrder),
            identifyUnderperformingPatterns(feedbackFiles, feedbackOrder,
                                            sessionFiles, sessionOrder),
            getLearningMetrics(loadAllFeedback(feedbackFiles, feedbackOrder)),
            clock)>>]

\* getOptimizationStatus() on the daemon's ContinuousImprovement.
GetOptimizationStatus(trainingOrder, feedbackOrder, sessionOrder) ==
    /\ status.calls < MaxStatusCalls
    /\ status' = StatusOf(improvement, FALSE, trainingOrder, feedbackOrder, sessionOrder)
    /\ UNCHANGED <<ledgerVars, genVars, discVars, feedbackVars, improveVars,
                   analyzerVars, daemonVars>>

\* The ceo_optimization_status tool: new ContinuousImprovement() and
\* getOptimizationStatus() on it.
OptimizationStatusTool(trainingOrder, feedbackOrder, sessionOrder) ==
    /\ status.calls < MaxStatusCalls
    /\ status' = StatusOf(NewImprovement(<<>>), TRUE, trainingOrder, feedbackOrder,
                          sessionOrder)
    /\ UNCHANGED <<ledgerVars, genVars, discVars, feedbackVars, improveVars,
                   analyzerVars, daemonVars>>

\* executeImprovements(actions): the call is made and the loop is entered.
\* A caller that passes the list checkAndImprove gave it hands the list over.
ExecuteImprovements(actions) ==
    /\ cycle.pc # "executing"
    /\ cycle.executions < MaxExecutions
    /\ cycle' = [cycle EXCEPT
            !.pc = IF actions = <<>> THEN "returned" ELSE "executing",
            !.executions = @ + 1,
            !.actions = actions,
            !.checked = IF actions = cycle.checked THEN <<>> ELSE @,
            !.next = 1,
            !.attempted = <<>>]
    /\ UNCHANGED <<improvement, modelFiles, trainers, ledgerVars, genVars, discVars,
                   feedbackVars, analyzerVars, daemonVars, statusVars>>

\* Where the loop stands after the action at cycle.next.
Advanced(c) ==
    [c EXCEPT !.next = @ + 1,
              !.pc = IF c.next = Len(c.actions) THEN "returned" ELSE "executing"]

\* A slip: the rejection leaves the loop and reaches the caller.
Thrown(c) == [c EXCEPT !.pc = "raised"]

\* catch (error) { this.logger.error(...) }: the loop goes on with the next
\* action.
Caught(c) == Advanced(c)

\* One iteration of the loop whose action runs to its end: executedAt is set,
\* the action is pushed on the history and 'improvement:executed' is emitted.
ActionExecuted(action, done) ==
    LET executed == [action EXCEPT !.actualImprovement = <<done.actualImprovement>>,
                                   !.executedAt = <<clock>>]
    IN  /\ modelFiles' = done.files
        /\ improvement' = [improvement EXCEPT
                 !.lastTrainingTime = done.lastTrainingTime,
                 !.improvementHistory = Append(@, executed)]
        /\ cycle' = [Advanced(cycle) EXCEPT
                 !.actions[cycle.next] = executed,
                 !.attempted = Append(@, cycle.next),
                 !.emitted = Append(@, executed),
                 !.trainedOn =
                     IF RejectingSteps(action) # {}
                     THEN @ \cup ExamplesIn(trainingFiles) ELSE @]

ExecuteAction(trainingOrder) ==
    /\ cycle.pc = "executing"
    /\ ActionExecuted(cycle.actions[cycle.next],
                      Executed(cycle.actions[cycle.next], modelFiles,
                               getTrainingData(trainingFiles, trainingOrder), clock,
                               improvement.lastTrainingTime))
    /\ UNCHANGED <<trainers, ledgerVars, genVars, discVars, feedbackVars,
                   analyzerVars, daemonVars, statusVars>>

\* One iteration of the loop whose action rejects at the write of `step`: the
\* catch block logs the error and the loop goes on.
ExecuteActionFails(step, trainingOrder) ==
    /\ cycle.pc = "executing"
    /\ step \in RejectingSteps(cycle.actions[cycle.next])
    /\ modelFiles' = FilesWhenRejected(cycle.actions[cycle.next], step, modelFiles,
                                       getTrainingData(trainingFiles, trainingOrder),
                                       clock)
    /\ cycle' = [Caught(cycle) EXCEPT !.attempted = Append(@, cycle.next)]
    /\ UNCHANGED <<improvement, trainers, ledgerVars, genVars, discVars, feedbackVars,
                   analyzerVars, daemonVars, statusVars>>

\* An action of each type, as a caller of executeImprovements may pass them.
ManualActions ==
    << ImprovementAction(<<"strategy", 0>>, "change_strategy", "Manual", 70),
       ImprovementAction(<<"retrain", 0>>, "retrain_model", "Manual", 50),
       ImprovementAction(<<"improve-accuracy", 0>>, "update_weights", "Manual", 150),
       ImprovementAction(<<"adjust", 0>>, "adjust_algorithm", "Manual", 80) >>

\* Ids of the proposals the stored sessions hold.
ImproveIds ==
    UNION { {sessionFiles[n].proposals[i].id : i \in 1..Len(sessionFiles[n].proposals)}
            : n \in DOMAIN sessionFiles }

NextImprove ==
    \/ \E s \in ImproveSessions : StoreSession(s)
    \/ \E proposalId \in ImproveIds, projectId \in ProjectIds, order \in ReaddirOrders :
          \E feedback \in ImproveFeedbacks(proposalId, order) :
              CollectFeedback(proposalId, projectId, feedback, order)
    \/ \E trainingOrder \in ListingsOf(trainingFiles),
          feedbackOrder \in ListingsOf(feedbackFiles),
          sessionOrder \in ListingsOf(sessionFiles) :
          CheckAndImprove(trainingOrder, feedbackOrder, sessionOrder)
    \/ \E actions \in {cycle.checked, ManualActions} : ExecuteImprovements(actions)
    \/ \E trainingOrder \in ListingsOf(trainingFiles) : ExecuteAction(trainingOrder)
    \/ \E step \in {"impact_predictor", "cost_estimator"},
          trainingOrder \in ListingsOf(trainingFiles) :
          ExecuteActionFails(step, trainingOrder)

SpecImprove == Init /\ [][NextImprove]_vars

\* SpecStatus: getOptimizationStatus, on the daemon's instance and through the
\* tool, beside the feedback loop and an executeImprovements call a caller
\* makes with actions of its own.
NextStatus ==
    \/ \E s \in ImproveSessions : StoreSession(s)
    \/ \E proposalId \in ImproveIds, projectId \in ProjectIds, order \in ReaddirOrders :
          \E feedback \in ImproveFeedbacks(proposalId, order) :
              CollectFeedback(proposalId, projectId, feedback, order)
    \/ \E trainingOrder \in ListingsOf(trainingFiles),
          feedbackOrder \in ListingsOf(feedbackFiles),
          sessionOrder \in ListingsOf(sessionFiles) :
          \/ GetOptimizationStatus(trainingOrder, feedbackOrder, sessionOrder)
          \/ OptimizationStatusTool(trainingOrder, feedbackOrder, sessionOrder)
    \/ ExecuteImprovements(ManualActions)
    \/ \E trainingOrder \in ListingsOf(trainingFiles) : ExecuteAction(trainingOrder)

SpecStatus == Init /\ [][NextStatus]_vars

\* ------------------- SpecTrain: training runs of the NeuralTrainer, overlapping
\* The daemon's optimization cycle and the retraining tool each build their
\* own NeuralTrainer over the same models directory.  A training run is
\* suspended at each of its awaits: evaluateCurrentModel, loadModelWeights,
\* getLatestModelVersion and saveModel; the training loop itself runs between
\* two of them without a break.

\* trainImpactPredictor(trainingData, 100) or trainCostEstimator(trainingData,
\* 100) is called; nothing is read before the first await.
Train(t, type, trainingOrder) ==
    /\ trainers[t].pc \in {"idle", "done"}
    /\ trainers[t].runs < MaxRuns
    /\ trainers' = [trainers EXCEPT ![t] =
            [IdleTrainer EXCEPT
                !.pc = "evaluate",
                !.type = type,
                !.runs = trainers[t].runs + 1,
                !.trainingData = getTrainingData(trainingFiles, trainingOrder)]]
    /\ UNCHANGED <<modelFiles, improvement, cycle, ledgerVars, genVars, discVars,
                   feedbackVars, analyzerVars, daemonVars, statusVars>>

\* const initialAccuracy = await this.evaluateCurrentModel(type)
Evaluate(t) ==
    /\ trainers[t].pc = "evaluate"
    /\ trainers' = [trainers EXCEPT
            ![t].pc = "weights",
            ![t].initialAccuracy = <<evaluateCurrentModel(modelFiles, trainers[t].type)>>]
    /\ UNCHANGED <<modelFiles, improvement, cycle, ledgerVars, genVars, discVars,
                   feedbackVars, analyzerVars, daemonVars, statusVars>>

\* let modelWeights = await this.loadModelWeights(type)
LoadWeights(t) ==
    /\ trainers[t].pc = "weights"
    /\ trainers' = [trainers EXCEPT
            ![t].pc = "version",
            ![t].weights = loadModelWeights(modelFiles, trainers[t].type)]
    /\ UNCHANGED <<modelFiles, improvement, cycle, ledgerVars, genVars, discVars,
                   feedbackVars, analyzerVars, daemonVars, statusVars>>

\* The training loop, then version: (await this.getLatestModelVersion(type)) + 1
\* inside the model literal.
ReadVersion(t) ==
    /\ trainers[t].pc = "version"
    /\ trainers' = [trainers EXCEPT
            ![t].pc = "save",
            ![t].model =
                <<TrainedModel(trainers[t].type, trainers[t].trainingData, 100,
                               trainers[t].weights,
                               getLatestModelVersion(modelFiles, trainers[t].type),
                               clock)>>]
    /\ UNCHANGED <<modelFiles, improvement, cycle, ledgerVars, genVars, discVars,
                   feedbackVars, analyzerVars, daemonVars, statusVars>>

\* await this.saveModel(model), and the TrainingResult is returned.
SaveModel(t) ==
    /\ trainers[t].pc = "save"
    /\ modelFiles' = saveModel(modelFiles, trainers[t].model[1])
    /\ trainers' = [trainers EXCEPT
            ![t].pc = "done",
            ![t].result = <<TrainingResult(trainers[t].model[1],
                                           trainers[t].initialAccuracy[1])>>]
    /\ UNCHANGED <<improvement, cycle, ledgerVars, genVars, discVars, feedbackVars,
                   analyzerVars, daemonVars, statusVars>>

NextTrain ==
    \/ \E t \in Trainers, type \in ModelTypes,
          trainingOrder \in ListingsOf(trainingFiles) : Train(t, type, trainingOrder)
    \/ \E t \in Trainers : Evaluate(t)
    \/ \E t \in Trainers : LoadWeights(t)
    \/ \E t \in Trainers : ReadVersion(t)
    \/ \E t \in Trainers : SaveModel(t)

SpecTrain == Init /\ [][NextTrain]_vars

\* ------------------------------ PatternAnalyzer (part_005:950-1221): analyze
\* analyze awaits its four analyzers one after the other, pushes what each
\* returns onto one list and hands the list to mergePatterns.  confidence is in
\* hundredths.  Every analyzer stamps its patterns with new Date(), the wall
\* clock at that moment, which the system may set back between two awaits.
\* Of a pattern the id, type, action, frequency, timeSpent, confidence and
\* lastSeen are kept; context, firstSeen and metadata are never merged.

\* Command lines of .claude-flow/command-history.log.  None holds a date, a
\* run of ten digits or a quoted string, nor blanks at its ends, so
\* normalizeCommand returns each as it is.
Commands == {"edit a.ts", "npm test"}

CommandHistories ==
    { <<>>,
      <<"npm test", "npm test">>,
      <<"edit a.ts", "edit a.ts", "edit a.ts">>,
      <<"npm test", "edit a.ts", "npm test", "edit a.ts", "npm test", "edit a.ts">> }

\* Parsed lines of .claude-flow/file-operations.log.
FileOperationLogs ==
    { <<>>,
      [i \in 1..EditThreshold - 1 |-> [operation |-> "edit", file |-> "a.ts"]],
      [i \in 1..EditThreshold |->
          [operation |-> IF i = 1 THEN "write" ELSE "edit", file |-> "a.ts"]],
      [i \in 1..EditThreshold |-> [operation |-> "read", file |-> "a.ts"]] }

\* Parsed lines of the swarm coordination log, by the task type
\* classifyTaskType gives the line's task.
SwarmLogs ==
    { <<>>, <<"testing", "testing", "testing">>, <<"testing", "bugfix">> }

\* The wall clock's readings.
Instants == 0..MaxInstant

RECURSIVE CountIn(_, _)
CountIn(x, list) ==
    IF list = <<>> THEN 0
    ELSE (IF Head(list) = x THEN 1 ELSE 0) + CountIn(x, Tail(list))

\* The keys of a Map filled by walking `list`: in the order of first insertion.
RECURSIVE KeysInOrder(_, _)
KeysInOrder(list, seen) ==
    IF list = <<>> THEN <<>>
    ELSE IF Head(list) \in seen THEN KeysInOrder(Tail(list), seen)
    ELSE <<Head(list)>> \o KeysInOrder(Tail(list), seen \cup {Head(list)})

\* The keys a loop over the Map's entries pushes a pattern for, in the order
\* of the pushes: those counted at least `threshold` times in `list`.
FrequentKeys(list, threshold) ==
    SelectSeq(KeysInOrder(list, {}), LAMBDA key : CountIn(key, list) >= threshold)

\* analyzeMemory: one fixed pattern when .swarm/memory.db can be accessed.
analyzeMemory(exists, now) ==
    IF exists
    THEN << [id |-> <<"mem", now>>, type |-> "workflow", action |-> "memory_query",
             frequency |-> 10, timeSpent |-> 5, confidence |-> 80, lastSeen |-> now] >>
    ELSE <<>>

\* analyzeCommands: a pattern for every command met CommandThreshold times;
\* the id ends in patterns.length at the push.
analyzeCommands(history, now) ==
    LET frequent == FrequentKeys(history, CommandThreshold)
    IN  [i \in 1..Len(frequent) |->
            LET count == CountIn(frequent[i], history)
            IN  [id |-> <<"cmd", now, i - 1>>, type |-> "repetitive",
                 action |-> frequent[i], frequency |-> count, timeSpent |-> count * 2,
                 confidence |-> Min(count * 10, 100), lastSeen |-> now]]

\* The files of the edit and write operations, in the order of the log.
EditedFiles(operations) ==
    LET kept == SelectSeq(operations, LAMBDA op : op.operation \in {"edit", "write"})
    IN  [i \in 1..Len(kept) |-> kept[i].file]

\* analyzeFileOperations: a pattern for every file edited EditThreshold times.
analyzeFileOperations(operations, now) ==
    LET files == EditedFiles(operations)
        frequent == FrequentKeys(files, EditThreshold)
    IN  [i \in 1..Len(frequent) |->
            LET count == CountIn(frequent[i], files)
            IN  [id |-> <<"file", now, i - 1>>, type |-> "repetitive",
                 action |-> "edit " \o frequent[i], frequency |-> count,
                 timeSpent |-> count * 3, confidence |-> 85, lastSeen |-> now]]

\* analyzeSwarmLogs: a pattern for every task type met TaskThreshold times.
analyzeSwarmLogs(types, now) ==
    LET frequent == FrequentKeys(types, TaskThreshold)
    IN  [i \in 1..Len(frequent) |->
            LET count == CountIn(frequent[i], types)
            IN  [id |-> <<"swarm", now, i - 1>>, type |-> "workflow",
                 action |-> frequent[i] \o " task", frequency |-> count,
                 timeSpent |-> count * 10, confidence |-> 90, lastSeen |-> now]]

\* `${pattern.type}-${pattern.action}`: no type holds a hyphen, so two keys
\* are equal exactly when type and action both are.
MergeKey(pattern) == <<pattern.type, pattern.action>>

\* The index in `merged` of the entry with the key, 0 when there is none.
IndexOfKey(merged, key) ==
    IF \E i \in 1..Len(merged) : MergeKey(merged[i]) = key
    THEN CHOOSE i \in 1..Len(merged) : MergeKey(merged[i]) = key
    ELSE 0

\* The body of the `if (existing)` branch.
MergedInto(existing, pattern) ==
    [existing EXCEPT !.frequency = existing.frequency + pattern.frequency,
                     !.timeSpent = existing.timeSpent + pattern.timeSpent,
                     !.confidence = Max(existing.confidence, pattern.confidence),
                     !.lastSeen = pattern.lastSeen]

\* mergePatterns: Array.from(merged.values()) lists the entries in the order
\* their keys were first set.
RECURSIVE MergeFrom(_, _)
MergeFrom(patterns, merged) ==
    IF patterns = <<>> THEN merged
    ELSE LET pattern == Head(patterns)
             i == IndexOfKey(merged, MergeKey(pattern))
         IN  MergeFrom(Tail(patterns),
                IF i > 0
                THEN [merged EXCEPT ![i] = MergedInto(merged[i], pattern)]
                ELSE Append(merged, pattern))

mergePatterns(patterns) == MergeFrom(patterns, <<>>)

\* ------------------------------------------ SpecAnalyze: one analyze call
\* at a time, each await a step of its own.

Analyze ==
    /\ analysis.pc \in {"idle", "done"}
    /\ analysis' = [pc |-> "memory", patterns |-> <<>>, merged |-> <<>>]
    /\ UNCHANGED <<ledgerVars, genVars, discVars, feedbackVars, improveVars,
                   daemonVars, statusVars>>

Pooled(pc, found) ==
    /\ analysis' = [analysis EXCEPT !.pc = pc, !.patterns = analysis.patterns \o found]
    /\ UNCHANGED <<ledgerVars, genVars, discVars, feedbackVars, improveVars,
                   daemonVars, statusVars>>

AnalyzeMemory(exists, now) ==
    /\ analysis.pc = "memory"
    /\ Pooled("commands", analyzeMemory(exists, now))

AnalyzeCommands(history, now) ==
    /\ analysis.pc = "commands"
    /\ Pooled("files", analyzeCommands(history, now))

AnalyzeFileOperations(operations, now) ==
    /\ analysis.pc = "files"
    /\ Pooled("swarm", analyzeFileOperations(operations, now))

AnalyzeSwarmLogs(types, now) ==
    /\ analysis.pc = "swarm"
    /\ Pooled("merge", analyzeSwarmLogs(types, now))

MergePatterns ==
    /\ analysis.pc = "merge"
    /\ analysis' = [analysis EXCEPT !.pc = "done",
                                    !.merged = mergePatterns(analysis.patterns)]
    /\ UNCHANGED <<ledgerVars, genVars, discVars, feedbackVars, improveVars,
                   daemonVars, statusVars>>

NextAnalyze ==
    \/ Analyze
    \/ \E exists \in BOOLEAN, now \in Instants : AnalyzeMemory(exists, now)
    \/ \E history \in CommandHistories, now \in Instants : AnalyzeCommands(history, now)
    \/ \E operations \in FileOperationLogs, now \in Instants :
          AnalyzeFileOperations(operations, now)
    \/ \E types \in SwarmLogs, now \in Instants : AnalyzeSwarmLogs(types, now)
    \/ MergePatterns

SpecAnalyze == Init /\ [][NextAnalyze]_vars

\* ------------------------------------------------- CEODaemon (ceo-daemon.ts)
\* The daemon object and the runtime's interval timers.  A timer is a record
\* [id, kind]; `timers` holds those setInterval created and clearInterval has
\* not cleared, whether or not the daemon still holds their handles.  The
\* statistics, the log lines and the events take part in no decision and are
\* left out.  The initial discovery cycle of start() is the one await of the
\* class: `awaiting` counts the start() calls suspended there.

\* setInterval: a new timer of the given kind.
setInterval(d, kind) ==
    [d EXCEPT !.timers = @ \cup {[id |-> d.nextTimer, kind |-> kind]},
              !.nextTimer = @ + 1]

\* clearInterval(handle), inside `if (handle)`.
clearInterval(timers, handle) ==
    IF handle = <<>> THEN timers ELSE {t \in timers : t.id # handle[1]}

\* this.discoveryTimer = setInterval(...)
scheduleDiscoveryCycles(d) ==
    [setInterval(d, "discovery") EXCEPT !.discoveryTimer = <<d.nextTimer>>]

\* this.optimizationTimer = setInterval(...)
scheduleOptimizationCycles(d) ==
    [setInterval(d, "optimization") EXCEPT !.optimizationTimer = <<d.nextTimer>>]

\* start() from the initial discovery cycle on: both schedules.
Scheduled(d) == scheduleOptimizationCycles(scheduleDiscoveryCycles(d))

\* start() up to its await, or to its end when it awaits nothing.
start(d) ==
    IF d.isRunning THEN d
    ELSE IF d.autoStart
    THEN [d EXCEPT !.isRunning = TRUE, !.awaiting = @ + 1]
    ELSE Scheduled([d EXCEPT !.isRunning = TRUE])

\* stop(): it awaits nothing.
stop(d) ==
    IF ~d.isRunning THEN d
    ELSE [d EXCEPT
            !.timers = clearInterval(clearInterval(@, d.discoveryTimer),
                                     d.optimizationTimer),
            !.discoveryTimer = <<>>,
            !.optimizationTimer = <<>>,
            !.isRunning = FALSE]

\* ---------------------------------------- SpecDaemon: start() and stop()
\* new CEODaemon(config): config.autoStart ?? true.
Construct(autoStart) ==
    /\ daemon.pc = "none"
    /\ daemon' = [NoDaemon EXCEPT !.pc = "built", !.autoStart = autoStart]
    /\ UNCHANGED <<ledgerVars, genVars, discVars, feedbackVars, improveVars,
                   analyzerVars, statusVars>>

Start ==
    /\ daemon.pc = "built"
    /\ daemon.starts < MaxStarts
    /\ daemon' = [start(daemon) EXCEPT !.starts = @ + 1]
    /\ UNCHANGED <<ledgerVars, genVars, discVars, feedbackVars, improveVars,
                   analyzerVars, statusVars>>

\* The initial runDiscoveryCycle of a start() call resolves and the call runs
\* to its end.
DiscoveryReturns ==
    /\ daemon.awaiting > 0
    /\ daemon' = Scheduled([daemon EXCEPT !.awaiting = @ - 1])
    /\ UNCHANGED <<ledgerVars, genVars, discVars, feedbackVars, improveVars,
                   analyzerVars, statusVars>>

\* The initial runDiscoveryCycle rethrows startDiscovery's error: the start()
\* call rejects where it stands.
DiscoveryFails ==
    /\ daemon.awaiting > 0
    /\ daemon' = [daemon EXCEPT !.awaiting = @ - 1, !.rejected = @ + 1]
    /\ UNCHANGED <<ledgerVars, genVars, discVars, feedbackVars, improveVars,
                   analyzerVars, statusVars>>

Stop ==
    /\ daemon.pc = "built"
    /\ daemon' = stop(daemon)
    /\ UNCHANGED <<ledgerVars, genVars, discVars, feedbackVars, improveVars,
                   analyzerVars, statusVars>>

\* A live timer fires and its callback runs a cycle, catching what it throws.
IntervalElapses(t) ==
    /\ daemon.firings < MaxFirings
    /\ daemon' = [daemon EXCEPT !.firings = @ + 1]
    /\ UNCHANGED <<ledgerVars, genVars, discVars, feedbackVars, improveVars,
                   analyzerVars, statusVars>>

NextDaemon ==
    \/ \E autoStart \in BOOLEAN : Construct(autoStart)
    \/ Start
    \/ DiscoveryReturns
    \/ DiscoveryFails
    \/ Stop
    \/ \E t \in daemon.timers : IntervalElapses(t)

SpecDaemon == Init /\ [][NextDaemon]_vars

\* ================================================================== claims

\* The ledger as the next call will load it.
Ledger == LoadedData(file)

\* ------------------------------------------------------------------ C1
\* C1: in every ledger state reachable by reserveBudget, commitReservation,
\* cancelReservation and recordRevenue calls, the amounts of the reservations
\* with status 'reserved' sum to at most the balance, so the snapshot's
\* available balance is exactly balance - reserved and is never negative.
C1_ReservedWithinBalance ==
    /\ ReservedTotal(Ledger) <= Ledger.balance
    /\ Snapshot(Ledger).availableBalance = Ledger.balance - ReservedTotal(Ledger)
    /\ Snapshot(Ledger).availableBalance >= 0

\* ------------------------------------------------------------------ C2
AllDone == \A p \in Procs : procs[p].pc = "done"

\* The orders in which the callers can run one after the other.
Orders == {o \in [1..NumProcs -> Procs] : \A i, j \in 1..NumProcs : o[i] = o[j] => i = j}

RECURSIVE SerialRun(_, _, _, _)
\* The callers of order[k..] run one at a time from ledger f (<<>> when missing):
\* the file they leave and the callers that succeeded.
SerialRun(order, k, f, succ) ==
    IF k > NumProcs THEN [file |-> f, succ |-> succ]
    ELSE LET amount == procs[order[k]].amount IN
         IF amount <= 0 THEN SerialRun(order, k + 1, f, succ)
         ELSE LET r == reserveBudgetOn(LoadedData(f), amount, 0) IN
              IF r.ok THEN SerialRun(order, k + 1, <<r.data>>, succ \cup {order[k]})
              ELSE SerialRun(order, k + 1, FileAfterLoad(f), succ)

\* A ledger without the identifiers, which differ from run to run.
Amounts(f) ==
    IF f = <<>> THEN <<>>
    ELSE <<f[1].balance, [i \in 1..Len(f[1].reservations) |-> f[1].reservations[i].amount]>>

Succeeded == {p \in Procs : procs[p].ok}

\* C2: when concurrent reserveBudget calls have all returned, and each amount
\* alone passes the checks against the starting ledger while some serial order
\* of the calls rejects one of them, then the calls that succeeded and the
\* persisted ledger are those of some serial execution of the calls.
C2_ConcurrentReservesSerializable ==
    ( /\ AllDone
      /\ \A p \in Procs :
            procs[p].amount > 0 /\ reserveBudgetOn(Defaults, procs[p].amount, 0).ok
      /\ \E o \in Orders : SerialRun(o, 1, <<>>, {}).succ # Procs )
    => \E o \in Orders :
          LET s == SerialRun(o, 1, <<>>, {}) IN
          /\ s.succ = Succeeded
          /\ Amounts(s.file) = Amounts(file)

\* ------------------------------------------------- C3..C10: one call at a time
\* In a step of Spec, `last'` is the call the step made, Ledger the ledger the
\* call loaded and Ledger' the ledger it left.

\* The position of the reservation with identifier rid in data, 0 when none.
IndexOfId(data, rid) ==
    IF \E i \in 1..Len(data.reservations) : data.reservations[i].id = rid
    THEN CHOOSE i \in 1..Len(data.reservations) : data.reservations[i].id = rid
    ELSE 0

ReservedIds(data) ==
    {data.reservations[i].id : i \in {j \in 1..Len(data.reservations) :
                                         data.reservations[j].status = "reserved"}}

\* ------------------------------------------------------------------ C3
\* C3: reserveBudget(amount) succeeds only if 0 < amount <= 20% of the balance
\* available at the call; on a fresh 100,000 ledger reserveBudget(20,000)
\* succeeds, and a following reserveBudget(20,000), the first still reserved, is
\* rejected with the error that names the 20% allocation limit.
C3_ReserveWithinAllocation ==
    [][ last'.op = "reserveBudget" =>
          /\ last'.ok =>
                /\ 0 < last'.amount
                /\ 5 * last'.amount <= Ledger.balance - ReservedTotal(Ledger)
          /\ (Ledger = Defaults /\ last'.amount = 20000) => last'.ok
          /\ ( /\ Ledger.balance = 100000
               /\ Len(Ledger.reservations) = 1
               /\ Ledger.reservations[1].amount = 20000
               /\ Ledger.reservations[1].status = "reserved"
               /\ last'.amount = 20000 )
             => (~last'.ok /\ last'.error = ErrAllocation)
      ]_vars

C3_SecondWaveRejected ==
    /\ last.op = "reserveBudget" /\ last.amount = 20000
    /\ ~last.ok /\ last.error = ErrAllocation
    /\ Ledger.balance = 100000
    /\ Len(Ledger.reservations) = 1
    /\ Ledger.reservations[1].amount = 20000
    /\ Ledger.reservations[1].status = "reserved"

\* ------------------------------------------------------------------ C4
\* C4: a reservation's status changes at most once, reserved -> committed or
\* reserved -> cancelled; once committed or cancelled, no operation changes its
\* status, amount or actualCost, and a commitReservation or cancelReservation
\* on it is rejected.
C4_ReservationFinalOnce ==
    [][ /\ Len(Ledger'.reservations) >= Len(Ledger.reservations)
        /\ \A i \in 1..Len(Ledger.reservations) :
              LET r == Ledger.reservations[i]
                  q == Ledger'.reservations[i]
              IN /\ q.id = r.id /\ q.amount = r.amount
                 /\ q.status \in {"reserved", "committed", "cancelled"}
                 /\ q.status = "reserved" => q = r
                 /\ r.status # "reserved" => q = r
                 /\ ( /\ r.status # "reserved"
                      /\ last'.op \in {"commitReservation", "cancelReservation"}
                      /\ last'.id = r.id )
                    => (~last'.ok /\ last'.error = ErrNotFound)
      ]_vars

C4_FinalizedRejected ==
    /\ last.op \in {"commitReservation", "cancelReservation"}
    /\ ~last.ok
    /\ \E i \in 1..Len(Ledger.reservations) :
          /\ Ledger.reservations[i].id = last.id
          /\ Ledger.reservations[i].status \in {"committed", "cancelled"}

\* ------------------------------------------------------------------ C5
\* C5: a successful commitReservation(id, c) on a reserved reservation of
\* amount a (c = a when omitted) sets it to committed with actualCost c, lowers
\* the balance by exactly c and the reserved total by exactly a, and appends
\* exactly one expense transaction of amount c referencing id; on a 2,500
\* reservation against balance 100,000, commitReservation(id, 2000) yields
\* balance 98,000, reserved 0 and one new expense transaction of 2,000.
C5_CommitEffects ==
    [][ (last'.op = "commitReservation" /\ last'.ok) =>
          LET i == IndexOfId(Ledger, last'.id)
              a == Ledger.reservations[i].amount
              c == IF last'.cost = <<>> THEN a ELSE last'.cost[1]
              n == Len(Ledger.transactions)
              t == Ledger'.transactions[n + 1]
          IN /\ i # 0
             /\ Ledger.reservations[i].status = "reserved"
             /\ Ledger'.reservations[i].status = "committed"
             /\ Ledger'.reservations[i].actualCost = <<c>>
             /\ Ledger'.balance = Ledger.balance - c
             /\ ReservedTotal(Ledger') = ReservedTotal(Ledger) - a
             /\ Len(Ledger'.transactions) = n + 1
             /\ SubSeq(Ledger'.transactions, 1, n) = Ledger.transactions
             /\ t.type = "expense" /\ t.amount = c /\ t.reservationId = <<last'.id>>
             /\ last'.snapshot[1].balance = Ledger'.balance
             /\ last'.snapshot[1].reserved = ReservedTotal(Ledger')
             /\ (Ledger.balance = 100000 /\ ReservedTotal(Ledger) = 2500 /\ a = 2500 /\ c = 2000)
                => /\ last'.snapshot[1].balance = 98000
                   /\ last'.snapshot[1].reserved = 0
      ]_vars

C5_CommittedBelowReserved ==
    /\ last.op = "commitReservation" /\ last.ok /\ last.cost = <<2000>>
    /\ last.snapshot[1].balance = 98000 /\ last.snapshot[1].reserved = 0
    /\ Len(Ledger.reservations) = 1
    /\ Ledger.reservations[1].amount = 2500
    /\ Ledger.reservations[1].status = "committed"
    /\ Len(Ledger.transactions) = 1
    /\ Ledger.transactions[1].amount = 2000

\* ------------------------------------------------------------------ C6
\* C6: immediately after every successful reserveBudget(amount), reserved is
\* reserved(before) + amount, available is available(before) - amount, and the
\* balance is unchanged.
C6_ReserveEffects ==
    [][ (last'.op = "reserveBudget" /\ last'.ok) =>
          /\ Snapshot(Ledger').reserved = Snapshot(Ledger).reserved + last'.amount
          /\ Snapshot(Ledger').availableBalance
                = Snapshot(Ledger).availableBalance - last'.amount
          /\ Snapshot(Ledger').balance = Snapshot(Ledger).balance
      ]_vars

C6_ReservedOnTopOfReserved ==
    /\ last.op = "reserveBudget" /\ last.ok
    /\ Len(Ledger.reservations) = 2
    /\ ReservedTotal(Ledger) > last.amount

\* ------------------------------------------------------------------ C7
\* C7: every rejected ledger call (non-positive amount, amount above available,
\* amount above the 20% cap, unknown or already finalized reservation id,
\* actualCost above balance) raises an error and leaves the persisted balance,
\* reservations and transactions of an existing ledger as they were.
C7_RejectedCallsChangeNothing ==
    [][ LET free == Ledger.balance - ReservedTotal(Ledger)
            i == IndexOfId(Ledger, last'.id)
            cost == IF last'.cost = <<>> THEN Ledger.reservations[i].amount
                    ELSE last'.cost[1]
        IN
        /\ ~last'.ok => (last'.error # "" /\ (file # <<>> => file' = file))
        /\ last'.op = "reserveBudget" =>
              /\ last'.amount <= 0 => ~last'.ok
              /\ last'.amount > free => ~last'.ok
              /\ 5 * last'.amount > free => ~last'.ok
        /\ last'.op \in {"commitReservation", "cancelReservation"} =>
              (last'.id \notin ReservedIds(Ledger) => ~last'.ok)
        /\ last'.op = "commitReservation" =>
              ((last'.id \in ReservedIds(Ledger) /\ cost > Ledger.balance) => ~last'.ok)
        /\ last'.op = "recordRevenue" => (last'.amount <= 0 => ~last'.ok)
      ]_vars

C7_CommitAboveBalanceRejected ==
    /\ last.op = "commitReservation" /\ ~last.ok /\ last.error = ErrCommitBalance
    /\ file # <<>>
    /\ Len(Ledger.transactions) > 0
    /\ last.id \in ReservedIds(Ledger)

\* ------------------------------------------------------------------ C8
\* C8: the transaction list is append-only: no operation removes, reorders or
\* changes a transaction; each successful commitReservation or recordRevenue
\* appends exactly one, and reserveBudget, cancelReservation, getSnapshot and
\* rejected calls append none.
C8_TransactionsAppendOnly ==
    [][ LET n == Len(Ledger.transactions)
            m == Len(Ledger'.transactions)
        IN /\ m >= n
           /\ SubSeq(Ledger'.transactions, 1, n) = Ledger.transactions
           /\ IF last'.ok /\ last'.op \in {"commitReservation", "recordRevenue"}
              THEN m = n + 1
              ELSE m = n
      ]_vars

C8_AppendedToTransactions ==
    /\ last.op = "recordRevenue" /\ last.ok
    /\ Len(Ledger.transactions) = 2
    /\ Ledger.transactions[1].type = "expense"
    /\ Ledger.transactions[2].type = "revenue"

\* ------------------------------------------------------------------ C9
\* C9: a successful recordRevenue(amount), amount > 0, raises the balance by
\* exactly amount, leaves every reservation unchanged, and returns a snapshot
\* with available = balance - reserved; recordRevenue with amount <= 0 is
\* rejected.
C9_RevenueEffects ==
    [][ last'.op = "recordRevenue" =>
          IF last'.amount > 0
          THEN /\ last'.ok
               /\ Ledger'.balance = Ledger.balance + last'.amount
               /\ Ledger'.reservations = Ledger.reservations
               /\ last'.snapshot[1].availableBalance
                     = last'.snapshot[1].balance - last'.snapshot[1].reserved
          ELSE ~last'.ok
      ]_vars

\* ------------------------------------------------------------------ C10
\* C10: a successful cancelReservation(id) on a reserved reservation sets it to
\* cancelled with actualCost 0, lowers the reserved total by the reservation's
\* amount, and leaves the balance and the transaction list unchanged.
C10_CancelEffects ==
    [][ (last'.op = "cancelReservation" /\ last'.ok) =>
          LET i == IndexOfId(Ledger, last'.id) IN
          /\ i # 0
          /\ Ledger.reservations[i].status = "reserved"
          /\ Ledger'.reservations[i].status = "cancelled"
          /\ Ledger'.reservations[i].actualCost = <<0>>
          /\ ReservedTotal(Ledger') = ReservedTotal(Ledger) - Ledger.reservations[i].amount
          /\ Ledger'.balance = Ledger.balance
          /\ Ledger'.transactions = Ledger.transactions
      ]_vars

C10_CancelledAfterTransactions ==
    /\ last.op = "cancelReservation" /\ last.ok
    /\ Len(Ledger.transactions) > 0
    /\ \E i \in 1..Len(Ledger.reservations) :
          /\ Ledger.reservations[i].id = last.id
          /\ Ledger.reservations[i].status = "cancelled"
          /\ Ledger.reservations[i].actualCost = <<0>>

\* ------------------------------------------------------------------ C11
\* C11: two consecutive getSnapshot calls with no mutation in between return
\* identical values, also when the first call bootstraps a missing ledger
\* (balance = startCapital = 100,000, reserved 0, available 100,000, persisted
\* before returning); getSnapshot never changes an existing ledger.
\* In the state a getSnapshot call leaves, Snapshot(LoadedData(file)) is what
\* the next getSnapshot call returns.
C11_SnapshotIdempotent ==
    /\ [](last.op = "getSnapshot" =>
            /\ file # <<>>
            /\ <<Snapshot(LoadedData(file))>> = last.snapshot)
    /\ [][ last'.op = "getSnapshot" =>
             IF file = <<>>
             THEN /\ file' # <<>>
                  /\ file'[1].balance = 100000
                  /\ file'[1].startCapital = 100000
                  /\ last'.snapshot[1].balance = 100000
                  /\ last'.snapshot[1].startCapital = 100000
                  /\ last'.snapshot[1].reserved = 0
                  /\ last'.snapshot[1].availableBalance = 100000
             ELSE file' = file
         ]_vars

C11_SnapshotOfUsedLedger ==
    /\ last.op = "getSnapshot"
    /\ last.snapshot[1].reserved > 0
    /\ last.snapshot[1].balance # 100000


\* ------------------------------------------------------------------ C12

\* The generate calls made so far.
Calls == 1..Len(generated)

\* C12: generate returns no proposal when the estimated cost exceeds the
\* treasury's available balance (balance minus reserved), even if the cost
\* lies inside the budget range and is at most 20% of the total balance.
C12_NoProposalAboveAvailable ==
    \A i \in Calls :
        estimateCost(generated[i].painPoint) > generated[i].treasury.availableBalance
            => generated[i].result = <<>>

\* ------------------------------------------------------------------ C13

C14_DistinctProposalIds ==
    \A i, j \in Calls :
        (i < j /\ generated[i].result # <<>> /\ generated[j].result # <<>>)
            => generated[i].result[1].id # generated[j].result[1].id

\* ------------------------------------------------------------------ C15

\* The status changes startDiscovery may make.
StatusMoves ==
    { <<"analyzing", "proposing">>, <<"proposing", "completed">> }

\* C15: during startDiscovery a session's status only moves
\* analyzing -> proposing -> completed, never backwards and never to
\* 'negotiating'; if a stage raises, the call fails, the session is not
\* persisted, and its status never becomes completed.
C15_StatusOnlyForward ==
    /\ [](session # <<>> =>
            session[1].status \in {"analyzing", "proposing", "completed"})
    /\ [](frame.raised =>
            /\ frame.pc = "failed"
            /\ session[1].status # "completed"
            /\ session[1].id \notin DOMAIN sessionFiles)
    /\ [][ /\ session = <<>> /\ session' # <<>> => session'[1].status = "analyzing"
           /\ session # <<>> =>
                /\ session' # <<>>
                /\ session'[1].id = session[1].id
                /\ \/ session'[1].status = session[1].status
                   \/ <<session[1].status, session'[1].status>> \in StatusMoves
           /\ frame.raised => frame'.raised /\ sessionFiles' = sessionFiles
         ]_vars

\* The predictor rejected: the call failed while the session was proposing,
\* with proposals already generated.
C15_FailedWhileProposing ==
    /\ frame.raised
    /\ session[1].status = "proposing"
    /\ session[1].proposals # <<>>

\* ------------------------------------------------------------------ C16

\* C16: in every session startDiscovery returns with status completed, the
\* proposals are in non-increasing order of expected ROI, and every proposal
\* carries the prediction computed for it: the generated proposals, each once,
\* each with predict's result for that proposal.
C16_CompletedSortedByROI ==
    (session # <<>> /\ session[1].status = "completed") =>
        LET proposals == session[1].proposals
        IN  /\ \A i \in 1..Len(proposals) - 1 :
                  proposals[i].predictedImpact.expectedROI
                      >= proposals[i + 1].predictedImpact.expectedROI
            /\ \A i \in 1..Len(proposals) :
                  proposals[i].predictedImpact = predict(WithoutPrediction(proposals[i]))
            /\ Len(proposals) = Len(frame.proposals)
            /\ \A j \in 1..Len(frame.proposals) :
                  Cardinality({i \in 1..Len(proposals) :
                                  WithoutPrediction(proposals[i]) = frame.proposals[j]})
                    = Cardinality({k \in 1..Len(frame.proposals) :
                                  frame.proposals[k] = frame.proposals[j]})

\* A completed session whose two proposals were generated in rising order of
\* ROI, so that the sort exchanged them.
C16_SortExchangedProposals ==
    /\ session # <<>>
    /\ session[1].status = "completed"
    /\ Len(frame.proposals) = 2
    /\ predict(frame.proposals[1]).expectedROI < predict(frame.proposals[2]).expectedROI
    /\ WithoutPrediction(session[1].proposals[1]) = frame.proposals[2]

\* ------------------------------------------------------------------ C17

\* C17: within a discovery session each candidate proposal is gated against a
\* treasury snapshot requested from the ledger for that candidate, the latest
\* one: a reservation that becomes outstanding after the first candidate is
\* taken into account for every later candidate.
C17_CandidatesGatedOnLatestSnapshot ==
    [][ (frame.pc = "generating" /\ frame'.next = frame.next + 1) =>
            frame.treasury[1] = Snapshot(LoadedData(file)) ]_vars

\* ------------------------------------------------------------------ C18

\* The stored proposals that carry the id: every session file, every position.
StoredWithId(files, proposalId) ==
    UNION { {files[n].proposals[i] : i \in {k \in 1..Len(files[n].proposals) :
                                              files[n].proposals[k].id = proposalId}}
            : n \in DOMAIN files }

HasPrediction(proposal) == "predictedImpact" \in DOMAIN proposal

\* C18: collectFeedback always persists the outcome record, and creates a
\* training example if and only if the originating proposal is found in the
\* session store and has an attached prediction; when the proposal cannot be
\* located the call still succeeds, records prediction accuracy 0, and creates
\* no training example.
C18_TrainingIffProposalPredicted ==
    [][ lastFeedback' # lastFeedback =>
          LET proposalId == lastFeedback'.proposalId
              stored == StoredWithId(sessionFiles, proposalId)
              outcome == lastFeedback'.returned
              trainingName == TrainingFileName(proposalId)
          IN  /\ outcome # <<>>
              /\ FeedbackFileName(proposalId) \in DOMAIN feedbackFiles'
              /\ feedbackFiles'[FeedbackFileName(proposalId)] = outcome[1]
              /\ stored = {} =>
                    /\ outcome[1].predictionAccuracy = 0
                    /\ outcome[1].predictedImpact = <<>>
                    /\ trainingFiles' = trainingFiles
              /\ trainingFiles' # trainingFiles =>
                    /\ \E p \in stored :
                          /\ HasPrediction(p)
                          /\ trainingFiles' =
                                WriteFileTo(trainingFiles, trainingName,
                                    [proposal |-> p,
                                     prediction |-> <<p.predictedImpact>>,
                                     actualImpact |-> outcome[1],
                                     learningWeight |->
                                        Min(50, Abs(p.predictedImpact.expectedImpact
                                                    - outcome[1].actualOverallImpact))])
              /\ (stored # {} /\ \A p \in stored : HasPrediction(p)) =>
                    /\ trainingName \in DOMAIN trainingFiles'
                    /\ trainingFiles'[trainingName].actualImpact = outcome[1]
              /\ (\A p \in stored : ~HasPrediction(p)) => trainingFiles' = trainingFiles
      ]_vars

\* Feedback came in for an id no session holds while the store was not empty
\* and a training example of an earlier call existed: the outcome is on file
\* with accuracy 0.
C18_UnknownProposalRecorded ==
    /\ lastFeedback.proposalId = ProposalId(-1)
    /\ sessionFiles # <<>>
    /\ trainingFiles # <<>>
    /\ FeedbackFileName(ProposalId(-1)) \in DOMAIN feedbackFiles
    /\ lastFeedback.returned[1].predictionAccuracy = 0

\* ------------------------------------------------------------------ C19

\* C19: an outcome record is created once per delivered project and is
\* immutable thereafter: once collectFeedback has stored the outcome for a
\* proposal, no later call changes or replaces the stored record.
C19_OutcomeRecordsImmutable ==
    [][ \A name \in DOMAIN feedbackFiles :
            /\ name \in DOMAIN feedbackFiles'
            /\ feedbackFiles'[name] = feedbackFiles[name] ]_vars

\* ------------------------------------------------------------------ C20

\* The four submitted scores of the last call, added up.
ScoreSum ==
    lastFeedback.feedback.timeSavings + lastFeedback.feedback.problemSolution
        + lastFeedback.feedback.usability + lastFeedback.feedback.sustainability

ThresholdRetrainIn(actions) ==
    \E i \in 1..Len(actions) :
        actions[i].type = "retrain_model" /\ actions[i].id[1] = "retrain"

\* The training examples on disk that no executed training has read.
Unconsumed == ExamplesIn(trainingFiles) \ cycle.trainedOn

\* C21: checkAndImprove emits the threshold-based retrain action exactly when
\* the number of training examples not yet consumed by a training run is at
\* least the configured threshold; examples an executed retraining has
\* already used no longer count, so with no new examples the action is not
\* emitted again on the next check.
C21_RetrainOnUnconsumedExamples ==
    [][ cycle'.checks # cycle.checks =>
            (ThresholdRetrainIn(cycle'.checked)
                <=> Cardinality(Unconsumed) >= improvement.config.autoTrainThreshold)
      ]_vars

\* ------------------------------------------------------------------ C22

\* The indices 1..n in order.
UpTo(n) == [i \in 1..n |-> i]

\* Where the executeImprovements call stands: the actions before cycle.next
\* have been attempted, once each and in list order, and the call has not
\* raised; once it has returned, every action of the list has been attempted.
AttemptedInOrder ==
    /\ cycle.pc \in {"idle", "executing", "returned"}
    /\ cycle.pc = "executing" =>
            /\ cycle.next \in 1..Len(cycle.actions)
            /\ cycle.attempted = UpTo(cycle.next - 1)
    /\ cycle.pc = "returned" => cycle.attempted = UpTo(Len(cycle.actions))

\* One iteration of the loop: the action at cycle.next either succeeds, and
\* then carries executedAt, is the one entry added to the history and the one
\* event emitted, or fails, and then is left as it was while history and
\* events stay as they were.  The other actions of the list are not touched.
AttemptStep ==
    cycle'.attempted # cycle.attempted /\ cycle'.attempted # <<>> =>
        LET i == cycle.next
            after == cycle'.actions[i]
        IN  /\ cycle'.attempted = Append(cycle.attempted, i)
            /\ \A k \in 1..Len(cycle.actions) :
                    k # i => cycle'.actions[k] = cycle.actions[k]
            /\ cycle.actions[i].executedAt = <<>>
            /\ IF after.executedAt # <<>>
               THEN /\ improvement'.improvementHistory =
                            Append(improvement.improvementHistory, after)
                    /\ cycle'.emitted = Append(cycle.emitted, after)
               ELSE /\ after = cycle.actions[i]
                    /\ improvement'.improvementHistory = improvement.improvementHistory
                    /\ cycle'.emitted = cycle.emitted

\* C22: executeImprovements attempts every action of the list exactly once,
\* in list order, even when earlier actions fail; a failing action gets no
\* executedAt, is not added to the improvement history and emits no
\* 'improvement:executed' event, every succeeding action is appended to the
\* history in order, and the call itself never raises.
C22_EveryActionAttemptedOnce == []AttemptedInOrder /\ [][AttemptStep]_vars

\* The call has returned after its second action failed and a later one
\* succeeded.
C22_SucceededAfterFailure ==
    /\ cycle.pc = "returned"
    /\ Len(cycle.actions) = 4
    /\ cycle.actions[2].executedAt = <<>>
    /\ cycle.actions[3].executedAt # <<>>
    /\ Len(improvement.improvementHistory) = 3

\* ------------------------------------------------------------------ C23

\* Trainer t's run ends in this step: its saveModel has written.
RunEnds(t) == trainers[t].pc = "save" /\ trainers'[t].pc = "done"

\* C23: every training run persists exactly one new model record whose
\* version is one greater than the highest version stored for that kind, so
\* per kind the stored versions are strictly increasing and no stored model
\* record is ever overwritten, also when two training runs of the same kind
\* overlap.
C23_EachRunAddsNextVersion ==
    [][ \A t \in Trainers :
            RunEnds(t) =>
                LET name == ModelFileName(trainers[t].model[1])
                IN  /\ name \notin DOMAIN modelFiles
                    /\ DOMAIN modelFiles' = DOMAIN modelFiles \cup {name}
                    /\ \A n \in DOMAIN modelFiles : modelFiles'[n] = modelFiles[n]
                    /\ modelFiles'[name].version =
                           getLatestModelVersion(modelFiles, trainers[t].type) + 1
      ]_vars

\* ------------------------------------------------------------------ C24

\* minAccuracyImprovement, kept in tenths, as a fraction of a percent.
MinImprovement == Frac(improvement.config.minAccuracyImprovement, 10)

\* C24: a newly trained model becomes the latest model of its kind, the one
\* whose weights seed later training runs, only if its accuracy improved over
\* the previously deployed model by at least minAccuracyImprovement;
\* otherwise the previous model stays the latest.
C24_DeployedOnlyIfImproved ==
    [][ \A type \in ModelTypes :
            LET before == getLatestModel(modelFiles, type)
                after == getLatestModel(modelFiles', type)
            IN  before # <<>> /\ after # before =>
                    ~FracLess(FracSub(after[1].accuracy, before[1].accuracy),
                              MinImprovement)
      ]_vars

\* ------------------------------------------------------------------ C30

\* The categories checkAndImprove got from identifyUnderperformingPatterns:
\* those its adjust_algorithm action names, none when there is no such action.
ReportedPatterns(actions) ==
    UNION { {actions[i].reason[2][k] : k \in 1..Len(actions[i].reason[2])} :
                i \in {j \in 1..Len(actions) : actions[j].type = "adjust_algorithm"} }

\* The pain-point category of the proposal an outcome belongs to, however
\* the session files are listed; empty when no stored proposal has its id.
OwnCategories(outcome) ==
    { loadProposal(sessionFiles, order, outcome.proposalId)[1].painPoint.type :
        order \in { o \in ListingsOf(sessionFiles) :
                        loadProposal(sessionFiles, o, outcome.proposalId) # <<>> } }

\* The stored outcomes with user satisfaction or overall impact below 60.
UnderperformingOutcomes ==
    { feedbackFiles[n] : n \in { m \in DOMAIN feedbackFiles :
                                    Underperforms(feedbackFiles[m]) } }

\* C30: every category identifyUnderperformingPatterns returns is the
\* pain-point category of a proposal whose own outcome has user satisfaction
\* below 60 or actual overall impact below 60, and every such outcome with a
\* locatable proposal contributes its category, however many well-performing
\* outcomes are stored alongside and in whatever order they are read.
C30_CategoriesOfUnderperformingOutcomes ==
    [][ cycle'.checks # cycle.checks =>
            /\ \A category \in ReportedPatterns(cycle'.checked) :
                    \E outcome \in UnderperformingOutcomes :
                        category \in OwnCategories(outcome)
            /\ \A outcome \in UnderperformingOutcomes :
                    OwnCategories(outcome) # {} =>
                        OwnCategories(outcome) \cap ReportedPatterns(cycle'.checked) # {}
      ]_vars
\* --------------------------------------------------------------------- C25
\* loadHistoricalSessions: every .json file of the directory, in readdir order,
\* through JSON.parse.
loadHistoricalSessions(files, order) == [i \in 1..Len(order) |-> files[order[i]]]

LoadedSessions(files) ==
    { loadHistoricalSessions(files, order)[i] :
        order \in ListingsOf(files), i \in 1..Cardinality(DOMAIN files) }

\* C25: a session saved with saveSession is returned by loadHistoricalSessions
\* under its id with the proposals it was saved with, whatever other sessions
\* are saved before or after it: the session a step saves is loaded with its
\* own proposals, and every session loaded before a step is loaded after it
\* with the same id and the same proposals.
C25_SavedSessionsReloadEqual ==
    [][ /\ \A s \in StoredSessions :
            sessionFiles' # sessionFiles /\ sessionFiles' = SavedSessions(sessionFiles, s)
                => \E loaded \in LoadedSessions(sessionFiles') :
                        loaded.id = s.id /\ loaded.proposals = s.proposals
        /\ \A before \in LoadedSessions(sessionFiles) :
            \E after \in LoadedSessions(sessionFiles') :
                after.id = before.id /\ after.proposals = before.proposals
      ]_vars

\* --------------------------------------------------------------------- C26
\* The pooled patterns a merged pattern stands for.
InputsOf(m) ==
    { i \in 1..Len(analysis.patterns) : MergeKey(analysis.patterns[i]) = MergeKey(m) }

RECURSIVE TotalOf(_, _)
TotalOf(indices, amounts) ==
    IF indices = {} THEN 0
    ELSE LET i == CHOOSE i \in indices : TRUE
         IN  amounts[i] + TotalOf(indices \ {i}, amounts)

PooledFrequencies == [i \in 1..Len(analysis.patterns) |-> analysis.patterns[i].frequency]

PooledTimes == [i \in 1..Len(analysis.patterns) |-> analysis.patterns[i].timeSpent]

\* C26: what mergePatterns returns holds one pattern for every distinct
\* (type, action) among the pooled patterns, with the frequency and the
\* timeSpent summed over the patterns of that key, the greatest of their
\* confidences and the latest of their lastSeen times, in whatever order the
\* patterns were pooled.
C26_MergedSumsMaxAndLatest ==
    analysis.pc = "done" =>
        LET merged == analysis.merged
            pooled == analysis.patterns
        IN  /\ \A i, j \in 1..Len(merged) :
                    MergeKey(merged[i]) = MergeKey(merged[j]) => i = j
            /\ {MergeKey(merged[i]) : i \in 1..Len(merged)}
                    = {MergeKey(pooled[i]) : i \in 1..Len(pooled)}
            /\ \A k \in 1..Len(merged) :
                    LET m == merged[k]
                    IN  /\ m.frequency = TotalOf(InputsOf(m), PooledFrequencies)
                        /\ m.timeSpent = TotalOf(InputsOf(m), PooledTimes)
                        /\ \A i \in InputsOf(m) :
                                /\ m.confidence >= pooled[i].confidence
                                /\ m.lastSeen >= pooled[i].lastSeen
                        /\ \E i \in InputsOf(m) : m.confidence = pooled[i].confidence
                        /\ \E i \in InputsOf(m) : m.lastSeen = pooled[i].lastSeen

\* --------------------------------------------------------------------- C27
\* The patterns the claim lets yield a pain point.
Yields(pattern) ==
    \/ pattern.type = "repetitive" /\ pattern.frequency > 5
    \/ pattern.type = "error" /\ pattern.frequency > 3
    \/ pattern.type = "bottleneck" /\ pattern.timeSpent > 60

\* C27: every pattern yields at most one pain point, whose relatedPatterns
\* holds that pattern's id and nothing else, and workflow and search patterns,
\* repetitive patterns of frequency 5 or less, error patterns of frequency 3
\* or less and bottleneck patterns of 60 minutes or less yield none: the
\* session's pain points are, one for one and in order, those of its patterns
\* that are repetitive above 5, errors above 3 or bottlenecks above 60.
C27_OnePainPointPerYieldingPattern ==
    (session # <<>> /\ session[1].status # "analyzing") =>
        LET yielding == SelectSeq(session[1].patterns, Yields)
            painPoints == session[1].painPoints
        IN  /\ Len(painPoints) = Len(yielding)
            /\ \A k \in 1..Len(painPoints) :
                    painPoints[k].relatedPatterns = <<yielding[k].id>>

\* A completed session whose patterns were one that yields a pain point and
\* one on the edge of a test, the pain point being of the first alone.
C27_EdgePatternYieldsNone ==
    /\ session # <<>>
    /\ session[1].status = "completed"
    /\ Len(session[1].patterns) = 2
    /\ \E i, j \in 1..2 :
            /\ session[1].patterns[i].id \in {"r5", "e3", "b60", "w", "s"}
            /\ session[1].patterns[j].id \in {"r6", "e4", "b61"}
            /\ Len(session[1].painPoints) = 1
            /\ session[1].painPoints[1].relatedPatterns = <<session[1].patterns[j].id>>

\* --------------------------------------------------------------------- C29
\* The persisted ledger holds the reservation the call of p returned.
Persisted(p) ==
    /\ file # <<>>
    /\ \E i \in 1..Len(file[1].reservations) :
            /\ file[1].reservations[i].id = procs[p].id
            /\ file[1].reservations[i].amount = procs[p].amount

\* C29: no acknowledged ledger mutation is lost when calls overlap between
\* their read and their write of the file: once the overlapping reserveBudget
\* calls have all returned, the persisted ledger holds the reservation of
\* every call that reported success.
C29_AcknowledgedReservationsPersisted ==
    AllDone => \A p \in Succeeded : Persisted(p)

\* --------------------------------------------------------------------- C28
\* round(100 * severityMult * (2 - automationPotential) * (1 + timeCost/300) * 2.2)
\* of the exact product, a half rounded up: with the multiplier in tenths and
\* automationPotential in hundredths the product is n / 30000.
FormulaCost(painPoint) ==
    LET n == SeverityMultiplier(painPoint.severity)
               * (200 - painPoint.automationPotential)
               * (300 + painPoint.timeCost) * 22
    IN  (2 * n + 30000) \div 60000

\* C28: the cost of every proposal generate returned is
\* round(100 * severityMult * (2 - automationPotential) * (1 + timeCost/300) * 2.2)
\* for its pain point, with severityMult 1.0, 1.5, 2.0 and 3.0 for low,
\* medium, high and critical; for severity high, automationPotential 0.9 and
\* timeCost 120 it is 678.
C28_CostIsRoundedProduct ==
    \A i \in 1..Len(generated) :
        generated[i].result # <<>> =>
            /\ generated[i].result[1].cost = FormulaCost(generated[i].painPoint)
            /\ ( /\ generated[i].painPoint.severity = "high"
                 /\ generated[i].painPoint.automationPotential = 90
                 /\ generated[i].painPoint.timeCost = 120 )
                    => generated[i].result[1].cost = 678

\* --------------------------------------------------------------------- C31
RECURSIVE SumOfType(_, _)
\* The amounts of the transactions of one type, added up.
SumOfType(transactions, type) ==
    IF transactions = <<>> THEN 0
    ELSE (IF Head(transactions).type = type THEN Head(transactions).amount ELSE 0)
            + SumOfType(Tail(transactions), type)

\* C31: for a ledger bootstrapped with the defaults and driven by any
\* sequential series of ledger calls, the balance is startCapital plus the
\* amounts of all revenue transactions minus the amounts of all expense
\* transactions, and the balance is never negative.
C31_BalanceIsCapitalPlusFlows ==
    /\ Ledger.balance = Ledger.startCapital
                            + SumOfType(Ledger.transactions, "revenue")
                            - SumOfType(Ledger.transactions, "expense")
    /\ Ledger.balance >= 0

\* A revenue has been recorded and a reservation committed.
C31_RevenueThenExpense ==
    /\ Len(Ledger.transactions) = 2
    /\ Ledger.transactions[1].type = "revenue"
    /\ Ledger.transactions[2].type = "expense"
    /\ Ledger.balance # Ledger.startCapital
    /\ last.op = "commitReservation" /\ last.ok

\* --------------------------------------------------------------------- C32
\* C32: commitReservation never raises the balance: for every successful
\* commit, whatever actualCost is passed, the amount of the expense recorded
\* is at least 0 and the balance after it is at most the balance before.
C32_CommitNeverRaisesBalance ==
    [][ (last'.op = "commitReservation" /\ last'.ok) =>
          /\ Ledger'.transactions[Len(Ledger'.transactions)].type = "expense"
          /\ Ledger'.transactions[Len(Ledger'.transactions)].amount >= 0
          /\ Ledger'.balance <= Ledger.balance
      ]_vars

\* --------------------------------------------------------------------- C33
\* The live timers of one kind.
TimersOf(kind) == {t \in daemon.timers : t.kind = kind}

\* C33: whenever no start() call is in progress, the daemon's discovery and
\* optimization timers are scheduled exactly when isRunning is true, and at
\* most one timer of each kind exists; also after stop() was called while
\* start() awaited its initial discovery cycle, and after that cycle failed.
C33_TimersIffRunning ==
    (daemon.pc = "built" /\ daemon.awaiting = 0) =>
        \A kind \in {"discovery", "optimization"} :
            /\ daemon.isRunning <=> TimersOf(kind) # {}
            /\ Cardinality(TimersOf(kind)) <= 1

\* --------------------------------------------------------------------- C34
\* The budget range of a discovery system built without one.
DefaultBudgetRange == NoFrame.budgetRange

\* The proposals the call has generated so far.
ProposalsSoFar == IF session[1].status = "completed" THEN session[1].proposals
                  ELSE frame.proposals

ScheduledRetrainIn(actions) ==
    \E k \in 1..Len(actions) :
        /\ actions[k].type = "retrain_model"
        /\ actions[k].reason = "Scheduled retraining interval reached"

ExceedsAllocationUnguarded(amount, available) == AllocationDivisor * amount > available

\* reserveBudget with that conjunct removed: what it returns or throws.
reserveBudgetUnguarded(data, amount, rid) ==
    IF amount <= 0 THEN Rejected(data, ErrReserveAmount)
    ELSE IF InsufficientAvailable(amount, Available(data))
    THEN Rejected(data, ErrInsufficientAvailable)
    ELSE IF ExceedsAllocationUnguarded(amount, Available(data))
    THEN Rejected(data, ErrAllocation)
    ELSE Accepted([data EXCEPT !.reservations = Append(@, NewReservation(rid, amount))])

\* reserveBudget as it is, from the test of the amount on.
reserveBudgetWhole(data, amount, rid) ==
    IF amount <= 0 THEN Rejected(data, ErrReserveAmount)
    ELSE reserveBudgetOn(data, amount, rid)

\* C36: in reserveBudget the `available > 0` conjunct of the cap check is never
\* decisive: for every ledger state and every amount, reserveBudget with the
\* conjunct removed accepts and rejects the same calls with the same error.
C36_AvailableGuardNeverDecides ==
    /\ \A amount \in ReserveAmounts :
          reserveBudgetWhole(Ledger, amount, nextId)
              = reserveBudgetUnguarded(Ledger, amount, nextId)
    /\ last.op = "reserveBudget" =>
          \/ last.ok
          \/ last.error # ErrAllocation
          \/ Available(Ledger) > 0

\* Nothing is available and a reserveBudget call has just been rejected for it.
C36_NothingAvailable ==
    /\ Available(Ledger) = 0
    /\ last.op = "reserveBudget" /\ last.amount = 2500
    /\ ~last.ok /\ last.error = ErrInsufficientAvailable

\* --------------------------------------------------------------------- C37
\* The expense transactions that carry a reservation's id.
ExpensesOf(data, rid) ==
    {k \in 1..Len(data.transactions) :
        /\ data.transactions[k].type = "expense"
        /\ data.transactions[k].reservationId = <<rid>>}

\* C37: at all times expense transactions and committed reservations
\* correspond one to one: every committed reservation has exactly one expense
\* transaction carrying its id, of an amount equal to its actualCost; every
\* expense transaction references a committed reservation; cancelled and
\* still-reserved reservations have none.
C37_ExpensesMatchCommitted ==
    /\ \A i \in 1..Len(Ledger.reservations) :
          LET r == Ledger.reservations[i]
          IN  IF r.status = "committed"
              THEN /\ Cardinality(ExpensesOf(Ledger, r.id)) = 1
                   /\ \A k \in ExpensesOf(Ledger, r.id) :
                          <<Ledger.transactions[k].amount>> = r.actualCost
              ELSE ExpensesOf(Ledger, r.id) = {}
    /\ \A k \in 1..Len(Ledger.transactions) :
          Ledger.transactions[k].type = "expense" =>
              \E i \in 1..Len(Ledger.reservations) :
                  /\ Ledger.reservations[i].status = "committed"
                  /\ <<Ledger.reservations[i].id>> = Ledger.transactions[k].reservationId

\* One reservation committed and one cancelled, with the one expense.
C37_CommittedAndCancelled ==
    /\ Len(Ledger.reservations) = 2
    /\ Ledger.reservations[1].status = "committed"
    /\ Ledger.reservations[2].status = "cancelled"
    /\ Len(Ledger.transactions) = 1
    /\ Ledger.transactions[1].type = "expense"

\* --------------------------------------------------------------------- C38
\* The role selectAgents appends for QA.
QARole == "Reality-Checker"

\* C38: the requiredAgents of every generated proposal hold at most two
\* primary roles plus, exactly when severity is high or critical, one QA role
\* appended after them, and never list the same role twice.
C38_AgentsDistinctWithOneQA ==
    \A i \in 1..Len(generated) :
        generated[i].result # <<>> =>
            LET agents == generated[i].result[1].requiredAgents
                urgent == generated[i].painPoint.severity \in {"high", "critical"}
                primaries == IF urgent THEN Len(agents) - 1 ELSE Len(agents)
            IN  /\ primaries \in 0..2
                /\ urgent => agents[Len(agents)] = QARole
                /\ SubSeq(agents, 1, primaries)
                      = SubSeq(agentMapping(generated[i].painPoint.type), 1, primaries)
                /\ \A j, k \in 1..Len(agents) : agents[j] = agents[k] => j = k

====
